---- MODULE Spec2Model ----
(***************************************************************************)
(* A model of collectd's java plugin (src/java.c): the bridge between the  *)
(* daemon and an embedded JVM.  The module holds three specifications over *)
(* one set of variables:                                                   *)
(*   Spec         the plugin life cycle on the daemon's main thread:       *)
(*                cjni_config, cjni_init, registrations made by Java code, *)
(*                cjni_shutdown;                                           *)
(*   SpecAttach   the scheduler's threads calling cjni_read, cjni_write    *)
(*                and cjni_callback_info_destroy while the JVM runs;       *)
(*   SpecDispatch the native method DispatchValues and the value list      *)
(*                conversion behind it.                                    *)
(* JNI calls whose arguments are invalid (a stale local reference, a       *)
(* JNIEnv of a detached thread, a NULL JavaVM) are undefined: the model    *)
(* lets them either go on or end the process (crashed).                    *)
(***************************************************************************)
EXTENDS Integers, Sequences, FiniteSets, TLC

VARIABLES
  jvm,                 \* the JavaVM pointer: "NULL" or "VM"
  jvm_attached,        \* JVM side: the threads attached to the JVM
  natives,             \* JVM side: RegisterNatives succeeded for CollectdAPI
  crashed,             \* the process has been ended by undefined behaviour or abort()
  jvm_argc,            \* number of stored JVM arguments
  statements,          \* history: the statements cjni_config was given, each with
                       \* the status its handler returned
  java_classes_list,   \* sequence of java_plugin_class_t
  java_plugin_configs, \* sequence of java_plugin_config_t
  java_callbacks,      \* sequence of cjni_callback_info_t (config, init, shutdown)
  read_callbacks,      \* the daemon's read registrations (user_data of cjni_read)
  write_callbacks,     \* the daemon's write registrations (user_data of cjni_write)
  java_callbacks_lock, \* the mutex of java_callbacks: "free" or the thread that holds it
  next_ref,            \* JVM side: number of references handed out so far
  global_refs,         \* JVM side: ids of the global references that exist
  local_refs,          \* JVM side: ids of the local references that are valid
  released,            \* history: the references passed to DeleteGlobalRef, in order
  pc,                  \* main thread: position in cjni_config/cjni_init/cjni_shutdown
  calls,               \* history: callback invocations made by the main thread
  last_ret,            \* history: the last return of cjni_config/cjni_init/cjni_shutdown
  cjni_env,            \* per thread: the cjni_jvm_env_t stored under jvm_env_key
  stack,               \* per thread: frames of the bridged invocations in progress
  trace,               \* history, per thread: cjni_thread_attach/detach calls
  ncalls,              \* per thread: bridged invocations started so far
  bridge_ret,          \* history, per thread: the last return of a bridged invocation
  in_vl,               \* SpecDispatch: the Java ValueList handed to DispatchValues
  dispatched,          \* history: value lists handed to plugin_dispatch_values
  jni_ret,             \* history: the last status a native method returned to the
                       \* Java code that is running (0 when none is running)
  call_arg,            \* the argument of the native method or conversion function
                       \* a specification applies by itself
  call_out             \* history: what that function handed on or returned

vars == <<jvm, jvm_attached, natives, crashed, jvm_argc, statements, java_classes_list,
          java_plugin_configs, java_callbacks, read_callbacks, write_callbacks, java_callbacks_lock,
          next_ref, global_refs, local_refs, released, pc, calls, last_ret,
          cjni_env, stack, trace, ncalls, bridge_ret, in_vl, dispatched, call_arg, call_out,
          jni_ret>>

\* groups of variables
vmVars     == <<jvm, jvm_attached, natives>>
cfgVars    == <<jvm_argc, statements, java_classes_list, java_plugin_configs>>
regVars    == <<java_callbacks, read_callbacks, write_callbacks, java_callbacks_lock>>
refVars    == <<next_ref, global_refs, local_refs, released>>
mainVars   == <<pc, calls, last_ret>>
threadVars == <<cjni_env, stack, trace, ncalls, bridge_ret>>
convVars   == <<in_vl, dispatched, call_arg, call_out, jni_ret>>

-----------------------------------------------------------------------------
(* Bounds of the model *)

MaxCalls == 3      \* bridged invocations the threads start, all together
MaxDepth == 2      \* bridged invocations nested on one thread
MaxChildren == 2   \* statements in the <Plugin java> block given to cjni_config
MaxRegs == 2       \* registrations that reach NewGlobalRef
MaxVals == 2       \* length of the Java list of a ValueList

Threads == {"t1", "t2"}       \* threads of the daemon's scheduler
MainThread == "main"          \* the thread that runs init and shutdown
AllThreads == Threads \cup {MainThread}
Names == {"a", "b"}           \* callback / plugin names
ClassNames == {"A"}           \* Java classes named by LoadPlugin
Status == {0, 1}              \* statuses a Java callback returns

-----------------------------------------------------------------------------
(* Types of src/java.c *)

CB_TYPE_CONFIG == 1
CB_TYPE_INIT == 2
CB_TYPE_READ == 3
CB_TYPE_WRITE == 4
CB_TYPE_SHUTDOWN == 5

\* jobject values: NULL, a local reference or a global reference
NullRef == [k |-> "null", id |-> 0]
LocalRef(n) == [k |-> "local", id |-> n]
GlobalRef(n) == [k |-> "global", id |-> n]

\* a reference the JVM accepts in a call
RefValid(r, globals, locals) ==
  \/ r.k = "global" /\ r.id \in globals
  \/ r.k = "local" /\ r.id \in locals

\* struct cjni_jvm_env_s; alloc tells whether pthread_getspecific finds one
NoEnv == [alloc |-> FALSE, reference_counter |-> 0, jvm_env |-> "NULL"]

\* struct cjni_callback_info_s
CallbackInfo(name, type, object, method) ==
  [name |-> name, type |-> type, object |-> object, method |-> method]

\* struct java_plugin_class_s
PluginClass(name) == [name |-> name, class |-> "NULL", object |-> NullRef]

\* the return of a function, as the history variables record it
\* (early: it returned from the check of jvm at its top)
Ret(fn, status) == [fn |-> fn, status |-> status, done |-> TRUE, early |-> FALSE]
RetEarly(fn, status) == [fn |-> fn, status |-> status, done |-> TRUE, early |-> TRUE]
\* the function has not returned
Running(fn) == [fn |-> fn, status |-> 0, done |-> FALSE, early |-> FALSE]

-----------------------------------------------------------------------------
(* Thread attachment: cjni_thread_attach, cjni_thread_detach *)

\* What one call does: the binding afterwards, the value returned, whether the
\* JVM's attach/detach operation was called, and whether the process ended.
AttachResult(env, ret, jni, crash) ==
  [env |-> env, ret |-> ret, jni |-> jni, crash |-> crash]

\* faulty variant of cjni_thread_attach: attaches to the JVM on every call, whatever the counter says
cjni_thread_attach_always(e, vm, malloc_ok, status) ==
  LET e1 == IF e.alloc THEN e
            ELSE [alloc |-> TRUE, reference_counter |-> 0, jvm_env |-> "NULL"]
  IN IF ~e.alloc /\ ~malloc_ok THEN AttachResult(e, "NULL", FALSE, FALSE)
     ELSE IF vm = "NULL" THEN AttachResult(e1, "NULL", FALSE, TRUE)
     ELSE IF status # 0 THEN AttachResult(e1, "NULL", TRUE, FALSE)
     ELSE AttachResult([e1 EXCEPT !.reference_counter = @ + 1, !.jvm_env = "ENV"],
                       "ENV", TRUE, FALSE)

\* cjni_thread_attach: malloc_ok is the outcome of malloc (used when the thread
\* has no binding yet), status the status of AttachCurrentThread
cjni_thread_attach(e, vm, malloc_ok, status) ==
  LET e1 == IF e.alloc THEN e
            ELSE [alloc |-> TRUE, reference_counter |-> 0, jvm_env |-> "NULL"]
  IN IF ~e.alloc /\ ~malloc_ok THEN AttachResult(e, "NULL", FALSE, FALSE)
     ELSE IF e1.reference_counter > 0
       THEN AttachResult([e1 EXCEPT !.reference_counter = @ + 1],
                         e1.jvm_env, FALSE, FALSE)
     ELSE IF vm = "NULL"
       THEN AttachResult(e1, "NULL", FALSE, TRUE)     \* (*jvm)-> with jvm == NULL
     ELSE IF status # 0
       THEN AttachResult(e1, "NULL", TRUE, FALSE)
     ELSE AttachResult([e1 EXCEPT !.reference_counter = 1, !.jvm_env = "ENV"],
                       "ENV", TRUE, FALSE)

\* faulty variant of cjni_thread_detach: the detach that brings the counter to
\* 0 leaves jvm_env in the binding
cjni_thread_detach_keeping(e, vm, ndebug) ==
  IF ~e.alloc THEN AttachResult(e, -1, FALSE, FALSE)
  ELSE IF ~ndebug /\ (e.reference_counter <= 0 \/ e.jvm_env = "NULL")
    THEN AttachResult(e, -1, FALSE, TRUE)
  ELSE IF e.reference_counter - 1 > 0
    THEN AttachResult([e EXCEPT !.reference_counter = @ - 1], 0, FALSE, FALSE)
  ELSE IF vm = "NULL"
    THEN AttachResult(e, -1, FALSE, TRUE)
  ELSE AttachResult([e EXCEPT !.reference_counter = 0], 0, TRUE, FALSE)

\* cjni_thread_detach: ndebug tells whether the build compiles the asserts out
cjni_thread_detach(e, vm, ndebug) ==
  IF ~e.alloc THEN AttachResult(e, -1, FALSE, FALSE)
  ELSE IF ~ndebug /\ (e.reference_counter <= 0 \/ e.jvm_env = "NULL")
    THEN AttachResult(e, -1, FALSE, TRUE)             \* assert () fails: abort ()
  ELSE IF e.reference_counter - 1 > 0
    THEN AttachResult([e EXCEPT !.reference_counter = @ - 1], 0, FALSE, FALSE)
  ELSE IF vm = "NULL"
    THEN AttachResult(e, -1, FALSE, TRUE)             \* (*jvm)-> with jvm == NULL
  ELSE AttachResult([e EXCEPT !.reference_counter = 0, !.jvm_env = "NULL"],
                    0, TRUE, FALSE)

\* an entry of trace: found is the counter the call read (-1: it read none),
\* left the counter when it returned, jni whether the JVM operation was called
TraceEntry(op, e, r) ==
  [op |-> op,
   found |-> IF r.env.alloc /\ (op = "attach" \/ e.alloc)
             THEN e.reference_counter ELSE -1,
   left |-> IF r.env.alloc THEN r.env.reference_counter ELSE -1,
   jni |-> r.jni,
   ok |-> IF op = "attach" THEN r.ret # "NULL" ELSE r.ret = 0]

\* cjni_jvm_env_destroy: the destructor of jvm_env_key, run when a thread ends
cjni_jvm_env_destroy(e) ==
  [env |-> NoEnv,
   error |-> (e.reference_counter > 0 \/ e.jvm_env # "NULL")]

-----------------------------------------------------------------------------
(* The bridged invocations: cjni_read, cjni_write, cjni_callback_info_destroy *)
(* A frame is one invocation in progress on a thread.                        *)

Frame(fn, at, cbi) == [fn |-> fn, pc |-> at, cbi |-> cbi, status |-> 0]

Top(t) == stack[t][Len(stack[t])]
Pop(t) == [stack EXCEPT ![t] = SubSeq(@, 1, Len(@) - 1)]
Goto(t, at) == [stack EXCEPT ![t][Len(stack[t])].pc = at]
At(t, fn, at) ==
  /\ ~crashed
  /\ stack[t] # <<>>
  /\ Top(t).fn = fn
  /\ Top(t).pc = at

Range(seq) == {seq[i] : i \in DOMAIN seq}
Remove(seq, x) == SelectSeq(seq, LAMBDA y : y # x)
InUse(cbi) == \E t \in AllThreads : \E i \in DOMAIN stack[t] : stack[t][i].cbi = cbi

\* the process ends: nothing else changes, and no action is enabled afterwards
Crash ==
  /\ crashed' = TRUE
  /\ UNCHANGED <<vmVars, cfgVars, regVars, refVars, mainVars, threadVars, convVars>>

\* a thread may start an invocation: the scheduler calls from the top of the
\* thread, and a Java callback that dispatches values calls cjni_write below it
CallsMade == ncalls["t1"] + ncalls["t2"] + ncalls[MainThread]
MayEnter(t, nested) ==
  /\ ~crashed
  /\ CallsMade < MaxCalls
  /\ Len(stack[t]) < MaxDepth
  /\ \/ stack[t] = <<>>
     \/ nested /\ stack[t] # <<>> /\ Top(t).pc = "java"

\* where an invocation goes on after cjni_thread_attach returned a JNIEnv
AfterAttach(fn) ==
  CASE fn = "read" -> "call"
    [] fn = "write" -> "convert"
    [] fn = "destroy" -> "delete"

\* entry of cjni_read / cjni_write: the checks of jvm and of the user data
cjni_rw_enter(t, fn, cbi) ==
  /\ ncalls' = [ncalls EXCEPT ![t] = @ + 1]
  /\ IF jvm = "NULL"
       THEN /\ bridge_ret' = [bridge_ret EXCEPT ![t] = Ret(fn, -1)]
            /\ UNCHANGED stack
       ELSE /\ stack' = [stack EXCEPT ![t] = Append(@, Frame(fn, "attach", cbi))]
            /\ UNCHANGED bridge_ret
  /\ UNCHANGED <<cjni_env, trace>>
  /\ UNCHANGED <<vmVars, crashed, cfgVars, regVars, refVars, mainVars, convVars>>

cjni_read_enter(t) ==
  /\ MayEnter(t, FALSE)
  /\ \E cbi \in Range(read_callbacks) : cjni_rw_enter(t, "read", cbi)

cjni_write_enter(t) ==
  /\ MayEnter(t, TRUE)
  /\ \E cbi \in Range(write_callbacks) : cjni_rw_enter(t, "write", cbi)

\* the daemon drops a read or write registration and calls its free_func,
\* cjni_callback_info_destroy, which makes no check of jvm
cjni_callback_info_destroy_enter(t) ==
  /\ MayEnter(t, FALSE)
  /\ \E cbi \in Range(read_callbacks) \cup Range(write_callbacks) :
       /\ ~InUse(cbi)
       /\ read_callbacks' = Remove(read_callbacks, cbi)
       /\ UNCHANGED java_callbacks_lock
       /\ write_callbacks' = Remove(write_callbacks, cbi)
       /\ stack' = [stack EXCEPT ![t] = Append(@, Frame("destroy", "attach", cbi))]
  /\ ncalls' = [ncalls EXCEPT ![t] = @ + 1]
  /\ UNCHANGED <<cjni_env, trace, bridge_ret, java_callbacks>>
  /\ UNCHANGED <<vmVars, crashed, cfgVars, refVars, mainVars, convVars>>

\* jvm_env = cjni_thread_attach (); if (jvm_env == NULL) return (-1);
bridge_attach(t) ==
  /\ ~crashed
  /\ stack[t] # <<>>
  /\ Top(t).pc = "attach"
  /\ \E malloc_ok \in BOOLEAN, status \in {0, -1} :
       LET r == cjni_thread_attach(cjni_env[t], jvm, malloc_ok, status)
       IN IF r.crash THEN Crash
          ELSE /\ cjni_env' = [cjni_env EXCEPT ![t] = r.env]
               /\ trace' = [trace EXCEPT ![t] = Append(@, TraceEntry("attach", cjni_env[t], r))]
               /\ jvm_attached' = IF r.jni /\ r.ret # "NULL"
                                    THEN jvm_attached \cup {t} ELSE jvm_attached
               /\ IF r.ret = "NULL"
                    THEN /\ stack' = Pop(t)
                         /\ bridge_ret' = [bridge_ret EXCEPT ![t] =
                                             Ret(Top(t).fn, -1)]
                    ELSE /\ stack' = Goto(t, AfterAttach(Top(t).fn))
                         /\ UNCHANGED bridge_ret
               /\ UNCHANGED <<jvm, natives, crashed, ncalls>>
               /\ UNCHANGED <<cfgVars, regVars, refVars, mainVars, convVars>>

\* cjni_write: vl_java = ctoj_value_list (...); if (vl_java == NULL) return (-1);
cjni_write_convert(t) ==
  /\ At(t, "write", "convert")
  /\ \E ok \in BOOLEAN :
       IF ok THEN /\ stack' = Goto(t, "call")
                  /\ UNCHANGED bridge_ret
       ELSE /\ stack' = Pop(t)
            /\ bridge_ret' = [bridge_ret EXCEPT ![t] = Ret("write", -1)]
  /\ UNCHANGED <<cjni_env, trace, ncalls>>
  /\ UNCHANGED <<vmVars, crashed, cfgVars, regVars, refVars, mainVars, convVars>>

\* a JNI call made by thread t with object o is defined
CallDefined(t, o) ==
  jvm = "VM" /\ t \in jvm_attached /\ RefValid(o, global_refs, local_refs)

\* status = CallIntMethod (jvm_env, cbi->object, cbi->method, ...): the call starts
bridge_call(t) ==
  /\ ~crashed
  /\ stack[t] # <<>>
  /\ Top(t).pc = "call"
  /\ \/ /\ stack' = Goto(t, "java")
        /\ UNCHANGED <<cjni_env, trace, ncalls, bridge_ret>>
        /\ UNCHANGED <<vmVars, crashed, cfgVars, regVars, refVars, mainVars, convVars>>
     \/ /\ ~CallDefined(t, Top(t).cbi.object)
        /\ Crash

\* the Java callback returns its status
java_return(t) ==
  /\ ~crashed
  /\ stack[t] # <<>>
  /\ Top(t).pc = "java"
  /\ \E s \in Status :
       stack' = [stack EXCEPT ![t][Len(stack[t])] = [@ EXCEPT !.pc = "detach", !.status = s]]
  /\ UNCHANGED <<cjni_env, trace, ncalls, bridge_ret>>
  /\ UNCHANGED <<vmVars, crashed, cfgVars, regVars, refVars, mainVars, convVars>>

\* cjni_callback_info_destroy: DeleteGlobalRef (jvm_env, cbi->object); free (cbi);
cjni_callback_info_destroy_delete(t) ==
  /\ At(t, "destroy", "delete")
  /\ LET o == Top(t).cbi.object
     IN \/ /\ released' = Append(released, o)
           /\ global_refs' = IF o.k = "global" THEN global_refs \ {o.id} ELSE global_refs
           /\ stack' = Goto(t, "detach")
           /\ UNCHANGED <<next_ref, local_refs>>
           /\ UNCHANGED <<cjni_env, trace, ncalls, bridge_ret>>
           /\ UNCHANGED <<vmVars, crashed, cfgVars, regVars, mainVars, convVars>>
        \/ /\ ~(t \in jvm_attached /\ o.k = "global" /\ o.id \in global_refs)
           /\ Crash

\* status = cjni_thread_detach (); if (status != 0) return (-1); return (status);
bridge_detach(t) ==
  /\ ~crashed
  /\ stack[t] # <<>>
  /\ Top(t).pc = "detach"
  /\ \E ndebug \in BOOLEAN :
       LET r == cjni_thread_detach(cjni_env[t], jvm, ndebug)
       IN IF r.crash THEN Crash
          ELSE /\ cjni_env' = [cjni_env EXCEPT ![t] = r.env]
               /\ trace' = [trace EXCEPT ![t] = Append(@, TraceEntry("detach", cjni_env[t], r))]
               /\ jvm_attached' = IF r.jni THEN jvm_attached \ {t} ELSE jvm_attached
               /\ stack' = Pop(t)
               /\ bridge_ret' = [bridge_ret EXCEPT ![t] =
                                   Ret(Top(t).fn, IF r.ret # 0 THEN -1 ELSE r.ret)]
               /\ local_refs' = IF r.jni /\ t = MainThread THEN {} ELSE local_refs
               /\ UNCHANGED <<jvm, natives, crashed, ncalls>>
               /\ UNCHANGED <<next_ref, global_refs, released>>
               /\ UNCHANGED <<cfgVars, regVars, mainVars, convVars>>

\* a scheduler thread ends: pthread runs the destructor of jvm_env_key
thread_exit(t) ==
  /\ ~crashed
  /\ stack[t] = <<>>
  /\ cjni_env[t].alloc
  /\ LET r == cjni_jvm_env_destroy(cjni_env[t])
     IN /\ cjni_env' = [cjni_env EXCEPT ![t] = r.env]
        /\ trace' = [trace EXCEPT ![t] = Append(@,
                       [op |-> "env_destroy", found |-> cjni_env[t].reference_counter,
                        left |-> -1, jni |-> FALSE, ok |-> ~r.error])]
  /\ UNCHANGED <<stack, ncalls, bridge_ret>>
  /\ UNCHANGED <<vmVars, crashed, cfgVars, regVars, refVars, mainVars, convVars>>

-----------------------------------------------------------------------------
(* Configuration: cjni_config and the three statements it knows *)

BAD == "BAD"     \* a statement without exactly one string argument

\* the statements of a <Plugin java> block; tree is the configuration tree of
\* a Plugin block, fail the allocation that fails while the statement is
\* handled ("none": no allocation fails)
Trees == {"t1", "t2"}
Children ==
  [key : {"JVMArg"}, arg : {"-Dx", BAD}, tree : {"none"},
   fail : {"none", "realloc", "strdup"}]
    \cup [key : {"LoadPlugin"}, arg : ClassNames \cup {BAD}, tree : {"none"},
          fail : {"none", "realloc", "strdup"}]
    \cup [key : {"Plugin"}, arg : Names \cup {BAD}, tree : Trees,
          fail : {"none", "strdup", "realloc", "oconfig_clone"}]
    \cup [key : {"Other"}, arg : {BAD}, tree : {"none"}, fail : {"none"}]

SeqsUpTo(S, n) == UNION {[1..k -> S] : k \in 0..n}

\* the configuration state the statements work on
CfgState(argc, classes, configs) ==
  [argc |-> argc, classes |-> classes, configs |-> configs, status |-> 0]

cjni_config_add_jvm_arg(c, child) ==
  IF child.arg = BAD \/ child.fail # "none" THEN [c EXCEPT !.status = -1]
  ELSE [c EXCEPT !.argc = @ + 1, !.status = 0]

cjni_config_load_plugin(c, child) ==
  IF child.arg = BAD \/ child.fail # "none" THEN [c EXCEPT !.status = -1]
  ELSE [c EXCEPT !.classes = Append(@, PluginClass(child.arg)), !.status = 0]

\* faulty variant of cjni_config_plugin_block: a later block of a stored name
\* takes the place of the stored one
cjni_config_plugin_block_replacing(c, child) ==
  IF child.arg = BAD \/ child.fail # "none" THEN [c EXCEPT !.status = -1]
  ELSE IF \E i \in DOMAIN c.configs : c.configs[i].name = child.arg
    THEN [c EXCEPT !.configs = [i \in DOMAIN c.configs |->
                                  IF c.configs[i].name = child.arg
                                    THEN [name |-> child.arg, ci |-> child.tree]
                                    ELSE c.configs[i]],
                   !.status = 0]
  ELSE [c EXCEPT !.configs = Append(@, [name |-> child.arg, ci |-> child.tree]),
                 !.status = 0]

\* cjni_config_plugin_block: strdup of the name comes before the search for a
\* stored block of that name, realloc and oconfig_clone after it
cjni_config_plugin_block(c, child) ==
  IF child.arg = BAD \/ child.fail = "strdup" THEN [c EXCEPT !.status = -1]
  ELSE IF \E i \in DOMAIN c.configs : c.configs[i].name = child.arg
    THEN [c EXCEPT !.status = 0]
  ELSE IF child.fail # "none" THEN [c EXCEPT !.status = -1]
  ELSE [c EXCEPT !.configs = Append(@, [name |-> child.arg, ci |-> child.tree]),
                 !.status = 0]

cjni_config_child(c, child) ==
  CASE child.key = "JVMArg" -> cjni_config_add_jvm_arg(c, child)
    [] child.key = "LoadPlugin" -> cjni_config_load_plugin(c, child)
    [] child.key = "Plugin" -> cjni_config_plugin_block(c, child)
    [] OTHER -> [c EXCEPT !.status = -1]

\* an entry of statements
Statement(child, status) ==
  [key |-> child.key, arg |-> child.arg, tree |-> child.tree, status |-> status]

\* the loop of cjni_config over ci->children[i .. ], counting success and errors
RECURSIVE cjni_config_loop(_, _, _, _, _, _)
cjni_config_loop(c, children, i, success, errors, log) ==
  IF i > Len(children)
    THEN [cfg |-> c, success |-> success, errors |-> errors, log |-> log]
    ELSE LET c1 == cjni_config_child(c, children[i])
         IN cjni_config_loop(c1, children, i + 1,
                             IF c1.status = 0 THEN success + 1 ELSE success,
                             IF c1.status = 0 THEN errors ELSE errors + 1,
                             Append(log, Statement(children[i], c1.status)))

\* faulty variant of cjni_config_status: fails when any statement failed
cjni_config_status_strict(success, errors) ==
  IF errors > 0 THEN -1 ELSE 0

\* cjni_config: if ((success == 0) && (errors > 0)) return (-1); return (0);
cjni_config_status(success, errors) ==
  IF success = 0 /\ errors > 0 THEN -1 ELSE 0

\* position of the main thread
Idle == [fn |-> "idle", at |-> "idle", i |-> 0, j |-> 0]
\* after a completed cjni_shutdown the daemon is exiting: it may call
\* cjni_shutdown again, but starts nothing
Stopped == [fn |-> "idle", at |-> "stopped", i |-> 0, j |-> 0]
PC(fn, at, i, j) == [fn |-> fn, at |-> at, i |-> i, j |-> j]
MainAt(at) == ~crashed /\ pc.at = at /\ stack[MainThread] = <<>>

\* the statements that store a class or a block and cannot fail
GoodChildren ==
  {c \in Children : /\ c.key \in {"LoadPlugin", "Plugin"}
                    /\ c.arg # BAD
                    /\ c.fail = "none"
                    /\ c.tree \in {"none", "t1"}}

\* cjni_config, called by the daemon before cjni_init with a block of
\* statements drawn from S
cjni_config_block(S) ==
  /\ MainAt("idle")
  /\ last_ret.fn = "none"
  /\ \E children \in SeqsUpTo(S, MaxChildren) :
       LET r == cjni_config_loop(
                  CfgState(jvm_argc, java_classes_list, java_plugin_configs),
                  children, 1, 0, 0, statements)
       IN /\ jvm_argc' = r.cfg.argc
          /\ java_classes_list' = r.cfg.classes
          /\ java_plugin_configs' = r.cfg.configs
          /\ statements' = r.log
          /\ last_ret' = Ret("config", cjni_config_status(r.success, r.errors))
  /\ UNCHANGED <<pc, calls>>
  /\ UNCHANGED <<vmVars, crashed, regVars, refVars, threadVars, convVars>>

\* in the life cycle: a block whose statements all store a class or a block
cjni_config == cjni_config_block(GoodChildren)

\* a block of any statements
cjni_config_any == cjni_config_block(Children)

-----------------------------------------------------------------------------
(* Registration: the native methods Java code calls *)

\* the JNI steps of cjni_callback_info_create that can fail
CreateFaults == {"none", "GetStringUTFChars", "malloc", "strdup",
                 "GetObjectClass", "GetMethodID"}

MethodName(type) ==
  CASE type = CB_TYPE_CONFIG -> "Config"
    [] type = CB_TYPE_INIT -> "Init"
    [] type = CB_TYPE_READ -> "Read"
    [] type = CB_TYPE_WRITE -> "Write"
    [] type = CB_TYPE_SHUTDOWN -> "Shutdown"

\* cjni_callback_info_create: n is the id of the local reference o_callback.
\* ok tells whether a descriptor is returned (FALSE: NULL).  The descriptor
\* keeps o_callback itself; the reference NewGlobalRef returns (made) is dropped.
cjni_callback_info_create(n, name, type, fault) ==
  IF type \notin {CB_TYPE_CONFIG, CB_TYPE_INIT, CB_TYPE_READ, CB_TYPE_WRITE,
                  CB_TYPE_SHUTDOWN} \/ fault # "none"
    THEN [ok |-> FALSE, cbi |-> CallbackInfo(name, type, NullRef, "NULL"),
          made |-> {}]
    ELSE [ok |-> TRUE,
          cbi |-> CallbackInfo(name, type, LocalRef(n), MethodName(type)),
          made |-> {n}]

\* Java code of a plugin is running on the main thread: inside a constructor
\* or a callback
JavaStates == {"load_java", "config_java", "init_java", "shutdown_java"}
JavaRuns ==
  /\ ~crashed
  /\ jvm = "VM"
  /\ natives
  /\ stack[MainThread] = <<>>
  /\ pc.at \in JavaStates

\* names a registration of the given type is tried with: the code looks a
\* name up only for config callbacks (cjni_config_plugins) and for read
\* callbacks (plugin_unregister_read); elsewhere it is carried along
NamesOf(type) ==
  IF type \in {CB_TYPE_CONFIG, CB_TYPE_READ} THEN Names ELSE {"a"}

\* registrations that reached NewGlobalRef so far
RegsMade ==
  next_ref - Cardinality({i \in DOMAIN java_classes_list :
                            java_classes_list[i].object # NullRef})

\* faulty variant of cjni_callback_register: a descriptor whose name and type
\* are already in the list is not appended again
cjni_callback_register_dedup(type) ==
  /\ JavaRuns
  /\ RegsMade < MaxRegs
  /\ \E name \in NamesOf(type), fault \in CreateFaults, realloc_ok \in BOOLEAN :
       LET n == next_ref + 1
           c == cjni_callback_info_create(n, name, type, fault)
           dup == \E k \in DOMAIN java_callbacks :
                    /\ java_callbacks[k].name = name
                    /\ java_callbacks[k].type = type
       IN IF ~c.ok
            THEN /\ jni_ret' = -1
                 /\ UNCHANGED <<crashed, regVars, refVars>>
          ELSE IF ~realloc_ok
            THEN \/ /\ jni_ret' = -1
                    /\ next_ref' = n
                    /\ global_refs' = global_refs \cup c.made
                    /\ released' = Append(released, c.cbi.object)
                    /\ UNCHANGED <<crashed, regVars, local_refs>>
                 \/ /\ crashed' = TRUE
                    /\ UNCHANGED <<regVars, refVars, jni_ret>>
          ELSE /\ java_callbacks' = IF dup THEN java_callbacks
                                    ELSE Append(java_callbacks, c.cbi)
               /\ next_ref' = n
               /\ global_refs' = global_refs \cup c.made
               /\ jni_ret' = 0
               /\ UNCHANGED <<crashed, read_callbacks, write_callbacks, java_callbacks_lock,
                              local_refs, released>>
  /\ UNCHANGED <<vmVars, cfgVars, mainVars, threadVars, in_vl, dispatched, call_arg, call_out>>

\* cjni_callback_register, for config, init and shutdown callbacks
cjni_callback_register(type) ==
  /\ JavaRuns
  /\ RegsMade < MaxRegs
  /\ \E name \in NamesOf(type), fault \in CreateFaults, realloc_ok \in BOOLEAN :
       LET n == next_ref + 1
           c == cjni_callback_info_create(n, name, type, fault)
       IN IF ~c.ok
            THEN /\ jni_ret' = -1
                 /\ UNCHANGED <<crashed, regVars, refVars>>
          ELSE IF ~realloc_ok
            THEN \* DeleteGlobalRef (jvm_env, cbi->object) on a local reference
                 \/ /\ jni_ret' = -1
                    /\ next_ref' = n
                    /\ global_refs' = global_refs \cup c.made
                    /\ released' = Append(released, c.cbi.object)
                    /\ UNCHANGED <<crashed, regVars, local_refs>>
                 \/ /\ crashed' = TRUE
                    /\ UNCHANGED <<regVars, refVars, jni_ret>>
          ELSE /\ java_callbacks' = Append(java_callbacks, c.cbi)
               /\ next_ref' = n
               /\ global_refs' = global_refs \cup c.made
               /\ jni_ret' = 0
               /\ UNCHANGED <<crashed, read_callbacks, write_callbacks, java_callbacks_lock,
                              local_refs, released>>
  /\ UNCHANGED <<vmVars, cfgVars, mainVars, threadVars, in_vl, dispatched, call_arg, call_out>>

cjni_api_register_config == cjni_callback_register(CB_TYPE_CONFIG)
cjni_api_register_init == cjni_callback_register(CB_TYPE_INIT)
cjni_api_register_shutdown == cjni_callback_register(CB_TYPE_SHUTDOWN)

\* faulty variant of cjni_api_register_rw: the descriptor is put into
\* java_callbacks as well
cjni_api_register_rw_listing(type) ==
  /\ JavaRuns
  /\ RegsMade < MaxRegs
  /\ \E name \in NamesOf(type), fault \in CreateFaults :
       LET n == next_ref + 1
           c == cjni_callback_info_create(n, name, type, fault)
       IN IF ~c.ok
            THEN /\ jni_ret' = -1
                 /\ UNCHANGED <<regVars, refVars>>
            ELSE /\ read_callbacks' = IF type = CB_TYPE_READ
                                        THEN Append(read_callbacks, c.cbi)
                                        ELSE read_callbacks
                 /\ UNCHANGED java_callbacks_lock
                 /\ write_callbacks' = IF type = CB_TYPE_WRITE
                                         THEN Append(write_callbacks, c.cbi)
                                         ELSE write_callbacks
                 /\ java_callbacks' = Append(java_callbacks, c.cbi)
                 /\ next_ref' = n
                 /\ global_refs' = global_refs \cup c.made
                 /\ jni_ret' = 0
                 /\ UNCHANGED <<local_refs, released>>
  /\ UNCHANGED <<vmVars, crashed, cfgVars, mainVars, threadVars, in_vl, dispatched, call_arg, call_out>>

\* faulty variant of cjni_api_register_rw: the function is registered with
\* the daemon although cjni_callback_info_create returned NULL
cjni_api_register_rw_unchecked(type) ==
  /\ JavaRuns
  /\ RegsMade < MaxRegs
  /\ \E name \in NamesOf(type), fault \in CreateFaults :
       LET n == next_ref + 1
           c == cjni_callback_info_create(n, name, type, fault)
       IN /\ read_callbacks' = IF type = CB_TYPE_READ
                                 THEN Append(read_callbacks, c.cbi)
                                 ELSE read_callbacks
          /\ UNCHANGED java_callbacks_lock
          /\ write_callbacks' = IF type = CB_TYPE_WRITE
                                  THEN Append(write_callbacks, c.cbi)
                                  ELSE write_callbacks
          /\ next_ref' = IF c.ok THEN n ELSE next_ref
          /\ global_refs' = global_refs \cup c.made
          /\ jni_ret' = IF c.ok THEN 0 ELSE -1
          /\ UNCHANGED <<java_callbacks, local_refs, released>>
  /\ UNCHANGED <<vmVars, crashed, cfgVars, mainVars, threadVars, in_vl, dispatched, call_arg, call_out>>

\* cjni_api_register_read / cjni_api_register_write: the descriptor goes to the
\* daemon as user data, with cjni_callback_info_destroy as its free_func
\* (DeleteLocalRef (o_read) then releases the local reference, the one the
\* descriptor keeps; local_refs never held it)
cjni_api_register_rw(type) ==
  /\ JavaRuns
  /\ RegsMade < MaxRegs
  /\ \E name \in NamesOf(type), fault \in CreateFaults :
       LET n == next_ref + 1
           c == cjni_callback_info_create(n, name, type, fault)
       IN IF ~c.ok
            THEN /\ jni_ret' = -1
                 /\ UNCHANGED <<regVars, refVars>>
            ELSE /\ read_callbacks' = IF type = CB_TYPE_READ
                                        THEN Append(read_callbacks, c.cbi)
                                        ELSE read_callbacks
                 /\ UNCHANGED java_callbacks_lock
                 /\ write_callbacks' = IF type = CB_TYPE_WRITE
                                         THEN Append(write_callbacks, c.cbi)
                                         ELSE write_callbacks
                 /\ next_ref' = n
                 /\ global_refs' = global_refs \cup c.made
                 /\ jni_ret' = 0
                 /\ UNCHANGED <<java_callbacks, local_refs, released>>
  /\ UNCHANGED <<vmVars, crashed, cfgVars, mainVars, threadVars, in_vl, dispatched, call_arg, call_out>>

cjni_api_register_read == cjni_api_register_rw(CB_TYPE_READ)
cjni_api_register_write == cjni_api_register_rw(CB_TYPE_WRITE)

-----------------------------------------------------------------------------
(* Start: cjni_init, cjni_init_native, cjni_load_plugins,                  *)
(* cjni_config_plugins, cjni_init_plugins                                    *)

Call(kind, idx, name, status) ==
  [kind |-> kind, idx |-> idx, name |-> name, status |-> status]

\* index of the first descriptor of the given type at or after i, 0 if none
NextOfType(cbs, type, i) ==
  LET S == {k \in DOMAIN cbs : k >= i /\ cbs[k].type = type}
  IN IF S = {} THEN 0 ELSE CHOOSE k \in S : \A m \in S : k <= m

\* faulty variant of FindConfigCallback: the first descriptor with the name,
\* whatever its type
FindConfigCallback_any_type(cbs, name) ==
  LET S == {k \in DOMAIN cbs : cbs[k].name = name}
  IN IF S = {} THEN 0 ELSE CHOOSE k \in S : \A m \in S : k <= m

\* the inner loop of cjni_config_plugins: the first config callback with the
\* name, 0 if there is none
FindConfigCallback(cbs, name) ==
  LET S == {k \in DOMAIN cbs : cbs[k].type = CB_TYPE_CONFIG /\ cbs[k].name = name}
  IN IF S = {} THEN 0 ELSE CHOOSE k \in S : \A m \in S : k <= m

\* faulty variant of cjni_init_enter: goes on to register the native methods
\* whether or not JNI_CreateJavaVM gave a JVM
cjni_init_enter_without_vm ==
  /\ MainAt("idle")
  /\ IF jvm # "NULL"
       THEN /\ last_ret' = RetEarly("init", 0)
            /\ UNCHANGED <<vmVars, pc>>
       ELSE \E key_status \in {0, -1}, vm_status \in {0, -1} :
              IF key_status # 0
                THEN /\ last_ret' = Ret("init", -1)
                     /\ UNCHANGED <<vmVars, pc>>
                ELSE /\ jvm' = IF vm_status = 0 THEN "VM" ELSE "NULL"
                     /\ jvm_attached' = IF vm_status = 0 THEN {MainThread} ELSE {}
                     /\ natives' = FALSE
                     /\ pc' = PC("init", "native", 0, 0)
                     /\ last_ret' = Running("init")
  /\ UNCHANGED calls
  /\ UNCHANGED <<crashed, cfgVars, regVars, refVars, threadVars, convVars>>

\* faulty variant of cjni_init_enter: creates a JVM although one exists
cjni_init_enter_again ==
  /\ MainAt("idle")
  /\ \E key_status \in {0, -1}, vm_status \in {0, -1} :
       IF key_status # 0 \/ vm_status # 0
         THEN /\ last_ret' = Ret("init", -1)
              /\ UNCHANGED <<vmVars, pc>>
         ELSE /\ jvm' = "VM"
              /\ jvm_attached' = {MainThread}
              /\ natives' = FALSE
              /\ pc' = PC("init", "native", 0, 0)
              /\ last_ret' = Running("init")
  /\ UNCHANGED calls
  /\ UNCHANGED <<crashed, cfgVars, regVars, refVars, threadVars, convVars>>

\* cjni_init up to JNI_CreateJavaVM
cjni_init_enter ==
  /\ MainAt("idle")
  /\ IF jvm # "NULL"
       THEN /\ last_ret' = RetEarly("init", 0)
            /\ UNCHANGED <<vmVars, pc>>
       ELSE \E key_status \in {0, -1}, vm_status \in {0, -1} :
              IF key_status # 0 \/ vm_status # 0
                THEN /\ last_ret' = Ret("init", -1)
                     /\ UNCHANGED <<vmVars, pc>>
                ELSE /\ jvm' = "VM"
                     /\ jvm_attached' = {MainThread}
                     /\ natives' = FALSE
                     /\ pc' = PC("init", "native", 0, 0)
                     /\ last_ret' = Running("init")
  /\ UNCHANGED calls
  /\ UNCHANGED <<crashed, cfgVars, regVars, refVars, threadVars, convVars>>

\* faulty variant of cjni_init_native_step: goes on to load the classes
\* whether or not the native methods could be registered
cjni_init_native_step_ignoring ==
  /\ MainAt("native")
  /\ \E find_ok \in BOOLEAN, status \in {0, -1} :
       /\ natives' = (find_ok /\ status = 0)
       /\ pc' = PC("init", "load", 1, 0)
       /\ UNCHANGED last_ret
  /\ UNCHANGED <<jvm, jvm_attached, calls>>
  /\ UNCHANGED <<crashed, cfgVars, regVars, refVars, threadVars, convVars>>

\* status = cjni_init_native (jvm_env); if (status != 0) return (-1);
cjni_init_native_step ==
  /\ MainAt("native")
  /\ \E find_ok \in BOOLEAN, status \in {0, -1} :
       IF ~find_ok \/ status # 0
         THEN /\ pc' = Idle
              /\ last_ret' = Ret("init", -1)
              /\ UNCHANGED natives
         ELSE /\ natives' = TRUE
              /\ pc' = PC("init", "load", 1, 0)
              /\ UNCHANGED last_ret
  /\ UNCHANGED <<jvm, jvm_attached, calls>>
  /\ UNCHANGED <<crashed, cfgVars, regVars, refVars, threadVars, convVars>>

\* faulty variant of cjni_load_plugins_step: a class that cannot be resolved
\* or has no constructor ends the start with a failure
cjni_load_plugins_step_aborting ==
  /\ MainAt("load")
  /\ IF pc.i > Len(java_classes_list)
       THEN /\ pc' = PC("init", "config", 1, 0)
            /\ UNCHANGED <<java_classes_list, last_ret>>
       ELSE \E find_ok \in BOOLEAN, ctor_ok \in BOOLEAN :
              /\ java_classes_list' =
                   [java_classes_list EXCEPT ![pc.i].class =
                      IF find_ok THEN "CLASS" ELSE "NULL"]
              /\ IF find_ok /\ ctor_ok
                   THEN /\ pc' = PC("init", "load_java", pc.i, 0)
                        /\ UNCHANGED last_ret
                   ELSE /\ pc' = Idle
                        /\ last_ret' = Ret("init", -1)
  /\ UNCHANGED <<jvm_argc, statements, java_plugin_configs, calls>>
  /\ UNCHANGED <<vmVars, crashed, regVars, refVars, threadVars, convVars>>

\* faulty variant of cjni_load_plugins_step: a class that cannot be resolved
\* or has no constructor ends the loop (break where the code has continue)
cjni_load_plugins_step_breaking ==
  /\ MainAt("load")
  /\ IF pc.i > Len(java_classes_list)
       THEN /\ pc' = PC("init", "config", 1, 0)
            /\ UNCHANGED java_classes_list
       ELSE \E find_ok \in BOOLEAN, ctor_ok \in BOOLEAN :
              /\ java_classes_list' =
                   [java_classes_list EXCEPT ![pc.i].class =
                      IF find_ok THEN "CLASS" ELSE "NULL"]
              /\ pc' = IF find_ok /\ ctor_ok
                         THEN PC("init", "load_java", pc.i, 0)
                         ELSE PC("init", "config", 1, 0)
  /\ UNCHANGED <<jvm_argc, statements, java_plugin_configs, calls, last_ret>>
  /\ UNCHANGED <<vmVars, crashed, regVars, refVars, threadVars, convVars>>

\* cjni_load_plugins, one class: FindClass, GetMethodID, then NewObject starts
cjni_load_plugins_step ==
  /\ MainAt("load")
  /\ IF pc.i > Len(java_classes_list)
       THEN /\ pc' = PC("init", "config", 1, 0)
            /\ UNCHANGED java_classes_list
       ELSE \E find_ok \in BOOLEAN, ctor_ok \in BOOLEAN :
              /\ java_classes_list' =
                   [java_classes_list EXCEPT ![pc.i].class =
                      IF find_ok THEN "CLASS" ELSE "NULL"]
              /\ pc' = IF find_ok /\ ctor_ok
                         THEN PC("init", "load_java", pc.i, 0)
                         ELSE PC("init", "load", pc.i + 1, 0)
  /\ UNCHANGED <<jvm_argc, statements, java_plugin_configs, calls, last_ret>>
  /\ UNCHANGED <<vmVars, crashed, regVars, refVars, threadVars, convVars>>

\* NewObject returns: class->object = NewObject (...); NewGlobalRef (class->object)
\* keeps the local reference and drops the global one
load_java_return ==
  /\ MainAt("load_java")
  /\ \E ok \in BOOLEAN :
       IF ok
         THEN LET n == next_ref + 1
              IN /\ java_classes_list' =
                      [java_classes_list EXCEPT ![pc.i].object = LocalRef(n)]
                 /\ next_ref' = n
                 /\ local_refs' = local_refs \cup {n}
                 /\ global_refs' = global_refs \cup {n}
         ELSE UNCHANGED <<java_classes_list, next_ref, local_refs, global_refs>>
  /\ pc' = PC("init", "load", pc.i + 1, 0)
  /\ UNCHANGED <<jvm_argc, statements, java_plugin_configs, released, calls, last_ret>>
  /\ UNCHANGED <<vmVars, crashed, regVars, threadVars, in_vl, dispatched, call_arg, call_out>>
  /\ jni_ret' = 0

\* cjni_config_plugins, one block: find the callback, convert the tree, call
cjni_config_plugins_step ==
  /\ MainAt("config")
  /\ IF pc.i > Len(java_plugin_configs)
       THEN /\ pc' = PC("init", "init", 1, 0)
            /\ UNCHANGED crashed
       ELSE LET j == FindConfigCallback(java_callbacks, java_plugin_configs[pc.i].name)
            IN IF j = 0
                 THEN /\ pc' = PC("init", "config", pc.i + 1, 0)
                      /\ UNCHANGED crashed
                 ELSE \/ \E convert_ok \in BOOLEAN :
                           /\ pc' = IF convert_ok
                                      THEN PC("init", "config_java", pc.i, j)
                                      ELSE PC("init", "config", pc.i + 1, 0)
                           /\ UNCHANGED crashed
                      \/ /\ ~CallDefined(MainThread, java_callbacks[j].object)
                         /\ crashed' = TRUE
                         /\ UNCHANGED pc
  /\ UNCHANGED <<calls, last_ret>>
  /\ UNCHANGED <<vmVars, cfgVars, regVars, refVars, threadVars, convVars>>

\* the Config callback returns
config_java_return ==
  /\ MainAt("config_java")
  /\ \E s \in Status :
       calls' = Append(calls, Call("config", pc.j, java_callbacks[pc.j].name, s))
  /\ pc' = PC("init", "config", pc.i + 1, 0)
  /\ UNCHANGED last_ret
  /\ UNCHANGED <<vmVars, crashed, cfgVars, regVars, refVars, threadVars, in_vl, dispatched, call_arg, call_out>>
  /\ jni_ret' = 0

\* cjni_init_plugins: up to the call of the next init callback, or the end
cjni_init_plugins_step ==
  /\ MainAt("init")
  /\ LET k == NextOfType(java_callbacks, CB_TYPE_INIT, pc.i)
     IN IF k = 0
          THEN /\ pc' = Idle
               /\ last_ret' = Ret("init", 0)
               /\ UNCHANGED crashed
          ELSE \/ /\ pc' = PC("init", "init_java", k, 0)
                  /\ UNCHANGED <<crashed, last_ret>>
               \/ /\ ~CallDefined(MainThread, java_callbacks[k].object)
                  /\ crashed' = TRUE
                  /\ UNCHANGED <<pc, last_ret>>
  /\ UNCHANGED calls
  /\ UNCHANGED <<vmVars, cfgVars, regVars, refVars, threadVars, convVars>>

\* plugin_unregister_read (name): the daemon drops the first read registration
\* of that name
plugin_unregister_read(reads, name) ==
  LET S == {k \in DOMAIN reads : reads[k].name = name}
      k == IF S = {} THEN 0 ELSE CHOOSE x \in S : \A m \in S : x <= m
  IN [found |-> k,
      reads |-> IF k = 0 THEN reads
                ELSE SubSeq(reads, 1, k - 1) \o SubSeq(reads, k + 1, Len(reads))]

\* faulty variant of init_java_return: a non-zero status ends the loop and
\* fails the start
init_java_return_stopping ==
  /\ MainAt("init_java")
  /\ \E s \in Status :
       LET name == java_callbacks[pc.i].name
           u == plugin_unregister_read(read_callbacks, name)
       IN /\ calls' = Append(calls, Call("init", pc.i, name, s))
          /\ IF s # 0 /\ u.found # 0
               THEN /\ read_callbacks' = u.reads
                    /\ stack' = [stack EXCEPT ![MainThread] =
                         Append(@, Frame("destroy", "attach", read_callbacks[u.found]))]
               ELSE UNCHANGED <<read_callbacks, stack>>
          /\ IF s # 0
               THEN /\ pc' = Idle
                    /\ last_ret' = Ret("init", -1)
               ELSE /\ pc' = PC("init", "init", pc.i + 1, 0)
                    /\ UNCHANGED last_ret
  /\ UNCHANGED <<java_callbacks, write_callbacks, java_callbacks_lock>>
  /\ UNCHANGED <<cjni_env, trace, ncalls, bridge_ret>>
  /\ UNCHANGED <<vmVars, crashed, cfgVars, refVars, in_vl, dispatched, call_arg, call_out>>
  /\ jni_ret' = 0

\* the Init callback returns; on a non-zero status plugin_unregister_read, which
\* calls cjni_callback_info_destroy for the registration on this thread
init_java_return ==
  /\ MainAt("init_java")
  /\ \E s \in Status :
       LET name == java_callbacks[pc.i].name
           u == plugin_unregister_read(read_callbacks, name)
       IN /\ calls' = Append(calls, Call("init", pc.i, name, s))
          /\ IF s # 0 /\ u.found # 0
               THEN /\ read_callbacks' = u.reads
                    /\ stack' = [stack EXCEPT ![MainThread] =
                         Append(@, Frame("destroy", "attach", read_callbacks[u.found]))]
               ELSE UNCHANGED <<read_callbacks, stack>>
  /\ pc' = PC("init", "init", pc.i + 1, 0)
  /\ UNCHANGED <<last_ret, java_callbacks, write_callbacks, java_callbacks_lock>>
  /\ UNCHANGED <<cjni_env, trace, ncalls, bridge_ret>>
  /\ UNCHANGED <<vmVars, crashed, cfgVars, refVars, in_vl, dispatched, call_arg, call_out>>
  /\ jni_ret' = 0

-----------------------------------------------------------------------------
(* Stop: cjni_shutdown, cjni_shutdown_plugins *)

\* the objects a release loop passes to DeleteGlobalRef, in order
ObjectsOf(list) ==
  LET nonnull == SelectSeq(list, LAMBDA d : d.object # NullRef)
  IN [i \in DOMAIN nonnull |-> nonnull[i].object]

\* DeleteGlobalRef is defined for a global reference that exists
DeleteDefined(o) == jvm = "VM" /\ o.k = "global" /\ o.id \in global_refs
GlobalIds(objs) == {objs[i].id : i \in {k \in DOMAIN objs : objs[k].k = "global"}}

\* faulty variant of cjni_shutdown_enter: no check of jvm
cjni_shutdown_enter_unchecked ==
  /\ MainAt("idle") \/ MainAt("stopped")
  /\ \E status \in {0, -1} :
       IF status # 0
         THEN /\ last_ret' = Ret("shutdown", -1)
              /\ UNCHANGED <<pc, jvm_attached>>
         ELSE /\ jvm_attached' = jvm_attached \cup {MainThread}
              /\ pc' = PC("shutdown", "shutdown", 1, 0)
              /\ last_ret' = Running("shutdown")
  /\ UNCHANGED <<jvm, natives, calls>>
  /\ UNCHANGED <<crashed, cfgVars, regVars, refVars, threadVars, convVars>>

\* cjni_shutdown up to AttachCurrentThread
cjni_shutdown_enter ==
  /\ MainAt("idle") \/ MainAt("stopped")
  /\ IF jvm = "NULL"
       THEN /\ last_ret' = RetEarly("shutdown", 0)
            /\ UNCHANGED <<pc, jvm_attached>>
       ELSE \E status \in {0, -1} :
              IF status # 0
                THEN /\ last_ret' = Ret("shutdown", -1)
                     /\ UNCHANGED <<pc, jvm_attached>>
                ELSE /\ jvm_attached' = jvm_attached \cup {MainThread}
                     /\ pc' = PC("shutdown", "shutdown", 1, 0)
                     /\ last_ret' = Running("shutdown")
  /\ UNCHANGED <<jvm, natives, calls>>
  /\ UNCHANGED <<crashed, cfgVars, regVars, refVars, threadVars, convVars>>

\* faulty variant of cjni_shutdown_plugins_step: leaves the loop when a
\* shutdown callback has returned a non-zero status
cjni_shutdown_plugins_step_stopping ==
  /\ MainAt("shutdown")
  /\ LET k == NextOfType(java_callbacks, CB_TYPE_SHUTDOWN, pc.i)
         failed == /\ calls # <<>>
                   /\ calls[Len(calls)].kind = "shutdown"
                   /\ calls[Len(calls)].status # 0
     IN IF k = 0 \/ failed
          THEN /\ pc' = PC("shutdown", "release_callbacks", 0, 0)
               /\ UNCHANGED crashed
          ELSE \/ /\ pc' = PC("shutdown", "shutdown_java", k, 0)
                  /\ UNCHANGED crashed
               \/ /\ ~CallDefined(MainThread, java_callbacks[k].object)
                  /\ crashed' = TRUE
                  /\ UNCHANGED pc
  /\ UNCHANGED <<calls, last_ret>>
  /\ UNCHANGED <<vmVars, cfgVars, regVars, refVars, threadVars, convVars>>

\* cjni_shutdown_plugins: up to the call of the next shutdown callback, or the end
cjni_shutdown_plugins_step ==
  /\ MainAt("shutdown")
  /\ LET k == NextOfType(java_callbacks, CB_TYPE_SHUTDOWN, pc.i)
     IN IF k = 0
          THEN /\ pc' = PC("shutdown", "release_callbacks", 0, 0)
               /\ UNCHANGED crashed
          ELSE \/ /\ pc' = PC("shutdown", "shutdown_java", k, 0)
                  /\ UNCHANGED crashed
               \/ /\ ~CallDefined(MainThread, java_callbacks[k].object)
                  /\ crashed' = TRUE
                  /\ UNCHANGED pc
  /\ UNCHANGED <<calls, last_ret>>
  /\ UNCHANGED <<vmVars, cfgVars, regVars, refVars, threadVars, convVars>>

\* the Shutdown callback returns; a non-zero status is logged
shutdown_java_return ==
  /\ MainAt("shutdown_java")
  /\ \E s \in Status :
       calls' = Append(calls, Call("shutdown", pc.i, java_callbacks[pc.i].name, s))
  /\ pc' = PC("shutdown", "shutdown", pc.i + 1, 0)
  /\ UNCHANGED last_ret
  /\ UNCHANGED <<vmVars, crashed, cfgVars, regVars, refVars, threadVars, in_vl, dispatched, call_arg, call_out>>
  /\ jni_ret' = 0

\* faulty variant of cjni_shutdown_callbacks: releases the references but
\* leaves java_callbacks_num as it is
cjni_shutdown_callbacks_keeping ==
  /\ MainAt("release_callbacks")
  /\ LET objs == ObjectsOf(java_callbacks)
     IN \/ /\ released' = released \o objs
           /\ global_refs' = global_refs \ GlobalIds(objs)
           /\ pc' = PC("shutdown", "release_classes", 0, 0)
           /\ UNCHANGED <<crashed, java_callbacks>>
        \/ /\ \E i \in DOMAIN objs : ~DeleteDefined(objs[i])
           /\ crashed' = TRUE
           /\ UNCHANGED <<released, global_refs, java_callbacks, pc>>
  /\ UNCHANGED <<read_callbacks, write_callbacks, java_callbacks_lock, next_ref, local_refs>>
  /\ UNCHANGED <<calls, last_ret>>
  /\ UNCHANGED <<vmVars, cfgVars, threadVars, convVars>>

\* cjni_shutdown: release all the global references to callback functions
cjni_shutdown_callbacks ==
  /\ MainAt("release_callbacks")
  /\ LET objs == ObjectsOf(java_callbacks)
     IN \/ /\ released' = released \o objs
           /\ global_refs' = global_refs \ GlobalIds(objs)
           /\ java_callbacks' = <<>>
           /\ pc' = PC("shutdown", "release_classes", 0, 0)
           /\ UNCHANGED crashed
        \/ /\ \E i \in DOMAIN objs : ~DeleteDefined(objs[i])
           /\ crashed' = TRUE
           /\ UNCHANGED <<released, global_refs, java_callbacks, pc>>
  /\ UNCHANGED <<read_callbacks, write_callbacks, java_callbacks_lock, next_ref, local_refs>>
  /\ UNCHANGED <<calls, last_ret>>
  /\ UNCHANGED <<vmVars, cfgVars, threadVars, convVars>>

\* cjni_shutdown: release all the global references to directly loaded classes
cjni_shutdown_classes ==
  /\ MainAt("release_classes")
  /\ LET objs == ObjectsOf(java_classes_list)
     IN \/ /\ released' = released \o objs
           /\ global_refs' = global_refs \ GlobalIds(objs)
           /\ java_classes_list' = <<>>
           /\ pc' = PC("shutdown", "destroy", 0, 0)
           /\ UNCHANGED crashed
        \/ /\ \E i \in DOMAIN objs : ~DeleteDefined(objs[i])
           /\ crashed' = TRUE
           /\ UNCHANGED <<released, global_refs, java_classes_list, pc>>
  /\ UNCHANGED <<jvm_argc, statements, java_plugin_configs, regVars, next_ref, local_refs>>
  /\ UNCHANGED <<calls, last_ret>>
  /\ UNCHANGED <<vmVars, threadVars, convVars>>

\* cjni_shutdown: DestroyJavaVM, pthread_key_delete, free the JVM arguments
\* and the copied configuration. DestroyJavaVM waits until the calling thread
\* is the only thread attached to the JVM.
cjni_shutdown_destroy ==
  /\ MainAt("destroy")
  /\ jvm_attached \subseteq {MainThread}
  /\ jvm' = "NULL"
  /\ jvm_attached' = {}
  /\ natives' = FALSE
  /\ local_refs' = {}
  /\ cjni_env' = [t \in AllThreads |-> NoEnv]
  /\ jvm_argc' = 0
  /\ UNCHANGED statements
  /\ java_plugin_configs' = <<>>
  /\ pc' = Stopped
  /\ last_ret' = Ret("shutdown", 0)
  /\ UNCHANGED <<java_classes_list, calls, next_ref, global_refs, released>>
  /\ UNCHANGED <<stack, trace, ncalls, bridge_ret>>
  /\ UNCHANGED <<crashed, regVars, convVars>>

-----------------------------------------------------------------------------
(* The life cycle on the main thread *)

Init ==
  /\ jvm = "NULL"
  /\ jvm_attached = {}
  /\ natives = FALSE
  /\ crashed = FALSE
  /\ jvm_argc = 0
  /\ statements = <<>>
  /\ java_classes_list = <<>>
  /\ java_plugin_configs = <<>>
  /\ java_callbacks = <<>>
  /\ read_callbacks = <<>>
  /\ write_callbacks = <<>>
  /\ java_callbacks_lock = "free"
  /\ next_ref = 0
  /\ global_refs = {}
  /\ local_refs = {}
  /\ released = <<>>
  /\ pc = Idle
  /\ calls = <<>>
  /\ last_ret = Ret("none", 0)
  /\ cjni_env = [t \in AllThreads |-> NoEnv]
  /\ stack = [t \in AllThreads |-> <<>>]
  /\ trace = [t \in AllThreads |-> <<>>]
  /\ ncalls = [t \in AllThreads |-> 0]
  /\ bridge_ret = [t \in AllThreads |-> Ret("none", 0)]
  /\ in_vl = "none"
  /\ call_arg = "none"
  /\ call_out = <<>>
  /\ dispatched = <<>>
  /\ jni_ret = 0

Next ==
  \/ cjni_config
  \/ cjni_init_enter
  \/ cjni_init_native_step
  \/ cjni_load_plugins_step
  \/ load_java_return
  \/ cjni_config_plugins_step
  \/ config_java_return
  \/ cjni_init_plugins_step
  \/ init_java_return
  \/ cjni_api_register_config
  \/ cjni_api_register_init
  \/ cjni_api_register_shutdown
  \/ cjni_api_register_read
  \/ cjni_api_register_write
  \/ bridge_attach(MainThread)
  \/ cjni_callback_info_destroy_delete(MainThread)
  \/ bridge_detach(MainThread)
  \/ cjni_shutdown_enter
  \/ cjni_shutdown_plugins_step
  \/ shutdown_java_return
  \/ cjni_shutdown_callbacks
  \/ cjni_shutdown_classes
  \/ cjni_shutdown_destroy

Spec == Init /\ [][Next]_vars

-----------------------------------------------------------------------------
(* Properties of the life cycle *)

\* every variable but last_ret
stateVars == <<vmVars, crashed, cfgVars, regVars, refVars, pc, calls,
               threadVars, convVars>>

\* the entries of calls made by cjni_shutdown_plugins
ShutdownCalls == SelectSeq(calls, LAMBDA c : c.kind = "shutdown")
\* the positions of the descriptors of a type in the registry
OfType(cbs, type) == {k \in DOMAIN cbs : cbs[k].type = type}
\* a sequence holds no element twice
NoRepeat(seq) == \A i, j \in DOMAIN seq : seq[i] = seq[j] => i = j

\* C5: every global reference made by a successful registration or class
\* instantiation has been released, once, when the first stop has completed,
\* and DeleteGlobalRef is never given a reference twice.
C5_GlobalRefsReleasedOnce ==
  /\ NoRepeat(released)
  /\ pc.at = "stopped" => global_refs = {}

\* C6: cjni_shutdown called while jvm == NULL returns 0, invokes no callback,
\* releases no reference and changes nothing of the plugin's state.
C6_StopWithoutJvmIsNoOp ==
  [][(jvm = "NULL" /\ last_ret'.fn = "shutdown")
       => (last_ret' = RetEarly("shutdown", 0) /\ UNCHANGED stateVars)]_vars

\* stop was called a second time after a stop that released references:
\* it returned 0
C6_Witness ==
  /\ pc.at = "stopped"
  /\ jvm = "NULL"
  /\ released # <<>>
  /\ last_ret = RetEarly("shutdown", 0)

\* C7: cjni_init called while jvm != NULL returns 0; it creates no JVM,
\* registers no native method, loads no class and invokes no callback.
C7_StartWithJvmIsNoOp ==
  [][(jvm # "NULL" /\ pc.at = "idle" /\ last_ret'.fn = "init")
       => (last_ret' = RetEarly("init", 0) /\ UNCHANGED stateVars)]_vars

\* start was called again after a start that loaded a class and invoked a
\* callback: it returned 0 from the check of jvm
C7_Witness ==
  /\ pc.at = "idle"
  /\ jvm = "VM"
  /\ natives
  /\ last_ret = RetEarly("init", 0)
  /\ \E i \in DOMAIN java_classes_list : java_classes_list[i].object # NullRef
  /\ calls # <<>>

\* C8: cjni_init registers the native methods after JNI_CreateJavaVM and
\* before cjni_load_plugins resolves or instantiates a class; when
\* cjni_init_native fails no class is resolved or instantiated.
C8_NativesBeforeClasses ==
  /\ natives => jvm = "VM"
  /\ pc.at \in {"load", "load_java", "config", "config_java", "init", "init_java"}
       => natives
  /\ \A i \in DOMAIN java_classes_list :
       (java_classes_list[i].class # "NULL" \/ java_classes_list[i].object # NullRef)
         => natives

\* cjni_init_native failed in a start with a class to load: cjni_init
\* returned -1 with the JVM created and the class untouched
C8_Witness ==
  /\ jvm = "VM"
  /\ ~natives
  /\ last_ret = Ret("init", -1)
  /\ java_classes_list # <<>>
  /\ \A i \in DOMAIN java_classes_list :
       java_classes_list[i].class = "NULL" /\ java_classes_list[i].object = NullRef

\* C9: cjni_shutdown invokes the Shutdown callbacks, then releases the
\* references of java_callbacks and empties it, then releases the references
\* of java_classes_list, then destroys the JVM and sets jvm to NULL: a
\* callback is invoked only while its descriptor is in the registry, the
\* registry is emptied only when every Shutdown callback has been invoked, the
\* classes are released only when the registry is empty, the JVM is destroyed
\* only when both lists are empty, and no reference is released without a JVM.
C9_StopOrder ==
  [][/\ Len(ShutdownCalls') > Len(ShutdownCalls)
          => /\ calls'[Len(calls')].idx \in DOMAIN java_callbacks
             /\ java_callbacks' = java_callbacks
             /\ released' = released
             /\ jvm' = "VM"
     /\ Len(java_callbacks') < Len(java_callbacks)
          => /\ {ShutdownCalls[i].idx : i \in DOMAIN ShutdownCalls}
                  = OfType(java_callbacks, CB_TYPE_SHUTDOWN)
             /\ java_callbacks' = <<>>
             /\ released' = released \o ObjectsOf(java_callbacks)
             /\ java_classes_list' = java_classes_list
             /\ jvm' = "VM"
     /\ Len(java_classes_list') < Len(java_classes_list)
          => /\ java_callbacks = <<>>
             /\ java_classes_list' = <<>>
             /\ released' = released \o ObjectsOf(java_classes_list)
             /\ jvm' = "VM"
     /\ (jvm = "VM" /\ jvm' = "NULL")
          => /\ java_callbacks = <<>>
             /\ java_classes_list = <<>>
             /\ released' = released
     /\ released' # released => jvm = "VM" /\ jvm' = "VM"]_vars

\* a stop has completed that invoked a Shutdown callback and released the
\* reference of a descriptor and of a class
C9_Witness ==
  /\ pc.at = "stopped"
  /\ jvm = "NULL"
  /\ ShutdownCalls # <<>>
  /\ Len(released) >= 2

\* C10: cjni_shutdown_plugins invokes every Shutdown descriptor of
\* java_callbacks once, in the order of registration, and no descriptor of
\* another type, whatever status the callbacks return.
C10_ShutdownCallbacksAll ==
  LET sh == ShutdownCalls
  IN /\ \A i, j \in DOMAIN sh : i < j => sh[i].idx < sh[j].idx
     /\ pc.at \in {"shutdown", "shutdown_java", "release_callbacks"}
          => \A i \in DOMAIN sh : sh[i].idx \in OfType(java_callbacks, CB_TYPE_SHUTDOWN)
     /\ pc.at = "release_callbacks"
          => {sh[i].idx : i \in DOMAIN sh} = OfType(java_callbacks, CB_TYPE_SHUTDOWN)

\* the loop has ended after two Shutdown callbacks, the first of which
\* returned a non-zero status
C10_Witness ==
  /\ pc.at = "release_callbacks"
  /\ Len(ShutdownCalls) = 2
  /\ ShutdownCalls[1].status # 0


-----------------------------------------------------------------------------
(* The scheduler's threads while the JVM runs *)

\* the plugin after a start that loaded one class, whose constructor
\* registered a read and a write callback
InitAttach ==
  /\ jvm = "VM"
  /\ jvm_attached = {MainThread}
  /\ natives = TRUE
  /\ crashed = FALSE
  /\ jvm_argc = 0
  /\ statements = <<>>
  /\ java_classes_list = <<[name |-> "A", class |-> "CLASS", object |-> LocalRef(3)]>>
  /\ java_plugin_configs = <<>>
  /\ java_callbacks = <<>>
  /\ read_callbacks = <<CallbackInfo("a", CB_TYPE_READ, LocalRef(1), "Read")>>
  /\ write_callbacks = <<CallbackInfo("a", CB_TYPE_WRITE, LocalRef(2), "Write")>>
  /\ java_callbacks_lock = "free"
  /\ next_ref = 3
  /\ global_refs = {1, 2, 3}
  /\ local_refs = {3}
  /\ released = <<>>
  /\ pc = Idle
  /\ calls = <<>>
  /\ last_ret = Ret("init", 0)
  /\ cjni_env = [t \in AllThreads |-> NoEnv]
  /\ stack = [t \in AllThreads |-> <<>>]
  /\ trace = [t \in AllThreads |-> <<>>]
  /\ ncalls = [t \in AllThreads |-> 0]
  /\ bridge_ret = [t \in AllThreads |-> Ret("none", 0)]
  /\ in_vl = "none"
  /\ call_arg = "none"
  /\ call_out = <<>>
  /\ dispatched = <<>>
  /\ jni_ret = 0

NextAttach ==
  \E t \in Threads :
    \/ cjni_read_enter(t)
    \/ cjni_write_enter(t)
    \/ cjni_callback_info_destroy_enter(t)
    \/ bridge_attach(t)
    \/ cjni_write_convert(t)
    \/ bridge_call(t)
    \/ java_return(t)
    \/ cjni_callback_info_destroy_delete(t)
    \/ bridge_detach(t)
    \/ thread_exit(t)

SpecAttach == InitAttach /\ [][NextAttach]_vars

-----------------------------------------------------------------------------
(* Properties of thread attachment *)

\* the calls of the given kind in tr[i..j] that called the JVM's operation
JvmOps(tr, i, j, op) ==
  Cardinality({k \in i..j : tr[k].op = op /\ tr[k].jni})

\* tr[i..i+3] is the given sequence of four successful calls, the first of
\* which found the counter at 0
Window(tr, i, ops) ==
  /\ i + 3 <= Len(tr)
  /\ tr[i].found = 0
  /\ \A k \in 0..3 : tr[i + k].op = ops[k + 1] /\ tr[i + k].ok

\* C1: on every thread, AttachCurrentThread is called by exactly the
\* cjni_thread_attach calls that find reference_counter == 0, and
\* DetachCurrentThread by exactly the cjni_thread_detach calls that leave it
\* at 0; attach, attach, detach, detach calls each once and attach, detach,
\* attach, detach calls each twice.
C1_AttachDetachCounted ==
  \A t \in Threads :
    LET tr == trace[t]
    IN /\ \A i \in DOMAIN tr :
            /\ tr[i].op = "attach" => (tr[i].jni <=> tr[i].found = 0)
            /\ tr[i].op = "detach" => (tr[i].jni <=> tr[i].left = 0)
       /\ \A i \in DOMAIN tr :
            /\ Window(tr, i, <<"attach", "attach", "detach", "detach">>)
                 => /\ JvmOps(tr, i, i + 3, "attach") = 1
                    /\ JvmOps(tr, i, i + 3, "detach") = 1
            /\ Window(tr, i, <<"attach", "detach", "attach", "detach">>)
                 => /\ JvmOps(tr, i, i + 3, "attach") = 2
                    /\ JvmOps(tr, i, i + 3, "detach") = 2

\* a thread has made attach, attach, detach, detach: a Java read callback
\* dispatched values, which called cjni_write on the same thread
C1_Witness ==
  \E t \in Threads : \E i \in DOMAIN trace[t] :
    Window(trace[t], i, <<"attach", "attach", "detach", "detach">>)

\* the invocations in progress on thread t that hold an attachment
Attached(t) ==
  Cardinality({i \in DOMAIN stack[t] : stack[t][i].pc # "attach"})

\* C2: every bridged invocation (cjni_read, cjni_write,
\* cjni_callback_info_destroy) leaves reference_counter as it found it, on
\* every return path: the counter of a thread is the number of its invocations
\* in progress that have attached, and a thread that ends has a counter of 0
\* and no JNIEnv.
C2_InvocationsBalanced ==
  \A t \in Threads :
    /\ cjni_env[t].reference_counter = Attached(t)
    /\ \A i \in DOMAIN trace[t] : trace[t][i].op = "env_destroy" => trace[t][i].ok

-----------------------------------------------------------------------------
(* The native method DispatchValues: jtoc_value_list and what it calls       *)
(* A Java ValueList is a record: type, time (ms), interval, values (the      *)
(* List<Number> getValues returns) and fault, the JNI step that fails while  *)
(* it is read ("none": no step fails).  Doubles are counted in halves.       *)

\* jlong and counter_t are 64 bits wide; the model keeps 16 of them
Modulus == 2 ^ 16
\* (jlong) x: the signed value of the low bits
ToJLong(x) == ((x + Modulus \div 2) % Modulus) - Modulus \div 2
\* (counter_t) x: the unsigned value of the low bits
ToCounter(x) == x % Modulus
\* C's integer division, which truncates toward zero
CDiv(a, b) == IF a >= 0 THEN a \div b ELSE -((-a) \div b)

JLong(n) == [k |-> "Long", n |-> n]
JDouble(h) == [k |-> "Double", n |-> h]
JNull == [k |-> "null", n |-> 0]
JString == [k |-> "String", n |-> 0]         \* an object that is no Number

\* Number.longValue () and Number.doubleValue ()
longValue(o) ==
  IF o.k = "Long" THEN o.n
  ELSE IF o.n >= 0 THEN o.n \div 2 ELSE -((-o.n) \div 2)
doubleValue(o) == IF o.k = "Long" THEN 2 * o.n ELSE o.n

\* the daemon's plugin_get_ds: the data sets of types.db, as sequences of
\* data source types; no entry for other names
DataSets ==
  [x \in {"gauge", "if_octets"} |->
     IF x = "gauge" THEN <<"GAUGE">> ELSE <<"COUNTER", "COUNTER">>]
TypeNames == {"gauge", "if_octets", "nope"}
plugin_get_ds(type) == IF type \in DOMAIN DataSets THEN DataSets[type] ELSE <<>>

\* the JNI steps of jtoc_value_list and jtoc_values_array that can fail
DispatchFaults == {"none", "GetObjectClass", "getType", "getHost", "getPlugin",
                   "getPluginInstance", "getTypeInstance", "getTime",
                   "getInterval", "getValues", "toArray", "calloc"}

\* jtoc_string: status and the string copied to the buffer (the names drawn
\* are shorter than the buffers, so sstrncpy cuts nothing)
jtoc_string(str, failing) ==
  IF failing THEN [status |-> -1, str |-> ""] ELSE [status |-> 0, str |-> str]

\* faulty variant of jtoc_value: the jlong is stored without the cast to
\* counter_t
jtoc_value_signed(ds_type, o) ==
  IF o.k \notin {"Long", "Double"}
    THEN [status |-> -1, value |-> [t |-> "none", v |-> 0]]
  ELSE IF ds_type = "COUNTER"
    THEN [status |-> 0, value |-> [t |-> "counter", v |-> longValue(o)]]
  ELSE [status |-> 0, value |-> [t |-> "gauge", v |-> doubleValue(o)]]

\* jtoc_value: longValue for a counter, cast to counter_t, doubleValue
\* otherwise; GetMethodID finds neither in an object that is no Number
jtoc_value(ds_type, o) ==
  IF o.k \notin {"Long", "Double"}
    THEN [status |-> -1, value |-> [t |-> "none", v |-> 0]]
  ELSE IF ds_type = "COUNTER"
    THEN [status |-> 0, value |-> [t |-> "counter", v |-> ToCounter(longValue(o))]]
  ELSE [status |-> 0, value |-> [t |-> "gauge", v |-> doubleValue(o)]]

\* GetObjectArrayElement: NULL past the end of the array
GetObjectArrayElement(arr, i) == IF i \in DOMAIN arr THEN arr[i] ELSE JNull

\* the loop of jtoc_values_array: for (i = 0; i < values_num; i++), here from 1
RECURSIVE jtoc_values_loop(_, _, _, _)
jtoc_values_loop(ds, arr, i, values) ==
  IF i > Len(ds) THEN [status |-> 0, values |-> values]
  ELSE LET o_number == GetObjectArrayElement(arr, i)
           r == jtoc_value(ds[i], o_number)
       IN IF o_number = JNull \/ r.status # 0
            THEN [status |-> -1, values |-> <<>>]
            ELSE jtoc_values_loop(ds, arr, i + 1, Append(values, r.value))

\* jtoc_values_array: values_num = ds->ds_num, whatever the length of the list
jtoc_values_array(ds, jvl) ==
  IF jvl.fault \in {"getValues", "toArray", "calloc"}
    THEN [status |-> -1, values |-> <<>>]
    ELSE jtoc_values_loop(ds, jvl.values, 1, <<>>)

\* struct value_list_s, as far as DispatchValues fills it
ValueList(type, time, interval, values) ==
  [type |-> type, time |-> time, interval |-> interval, values |-> values]

\* jtoc_value_list
jtoc_value_list(jvl) ==
  LET type == jtoc_string(jvl.type, jvl.fault = "getType")
      ds == plugin_get_ds(type.str)
      arr == jtoc_values_array(ds, jvl)
      none == ValueList("", 0, 0, <<>>)
  IN IF jvl.fault = "GetObjectClass" \/ type.status # 0
       THEN [status |-> -1, vl |-> none]
     ELSE IF ds = <<>>
       THEN [status |-> -1, vl |-> ValueList(type.str, 0, 0, <<>>)]
     ELSE IF jvl.fault \in {"getHost", "getPlugin", "getPluginInstance",
                            "getTypeInstance", "getTime"}
       THEN [status |-> -1, vl |-> ValueList(type.str, 0, 0, <<>>)]
     ELSE IF jvl.fault = "getInterval"
       THEN [status |-> -1, vl |-> ValueList(type.str, CDiv(jvl.time, 1000), 0, <<>>)]
     ELSE IF arr.status # 0
       THEN [status |-> -1,
             vl |-> ValueList(type.str, CDiv(jvl.time, 1000), jvl.interval, <<>>)]
     ELSE [status |-> 0,
           vl |-> ValueList(type.str, CDiv(jvl.time, 1000), jvl.interval, arr.values)]

\* faulty variant of cjni_api_dispatch_values: dispatches whatever
\* jtoc_value_list returned
cjni_api_dispatch_values_unchecked ==
  /\ ~crashed
  /\ pc = PC("dispatch", "call", 0, 0)
  /\ LET r == jtoc_value_list(in_vl)
     IN \E status \in {0, -1} :
          /\ dispatched' = Append(dispatched, r.vl)
          /\ jni_ret' = status
  /\ pc' = PC("dispatch", "returned", 0, 0)
  /\ UNCHANGED <<in_vl, call_arg, call_out, calls, last_ret>>
  /\ UNCHANGED <<vmVars, crashed, cfgVars, regVars, refVars, threadVars>>

\* cjni_api_dispatch_values; status is what plugin_dispatch_values returns
cjni_api_dispatch_values ==
  /\ ~crashed
  /\ pc = PC("dispatch", "call", 0, 0)
  /\ LET r == jtoc_value_list(in_vl)
     IN IF r.status # 0
          THEN /\ jni_ret' = -1
               /\ UNCHANGED dispatched
          ELSE \E status \in {0, -1} :
                 /\ dispatched' = Append(dispatched, r.vl)
                 /\ jni_ret' = status
  /\ pc' = PC("dispatch", "returned", 0, 0)
  /\ UNCHANGED <<in_vl, call_arg, call_out, calls, last_ret>>
  /\ UNCHANGED <<vmVars, crashed, cfgVars, regVars, refVars, threadVars>>

\* the objects a Java list may hold, and the lists: null stands for a null element
JavaObjects == {JLong(3), JDouble(5), JNull, JString}
JavaValueLists ==
  [type : TypeNames, time : {1999, 2000}, interval : {10},
   values : SeqsUpTo(JavaObjects, MaxVals), fault : DispatchFaults]

\* Java code that runs after a start calls DispatchValues with any ValueList
InitDispatch ==
  /\ jvm = "VM"
  /\ jvm_attached = {MainThread}
  /\ natives = TRUE
  /\ crashed = FALSE
  /\ jvm_argc = 0
  /\ statements = <<>>
  /\ java_classes_list = <<[name |-> "A", class |-> "CLASS", object |-> LocalRef(1)]>>
  /\ java_plugin_configs = <<>>
  /\ java_callbacks = <<>>
  /\ read_callbacks = <<>>
  /\ write_callbacks = <<>>
  /\ java_callbacks_lock = "free"
  /\ next_ref = 1
  /\ global_refs = {1}
  /\ local_refs = {1}
  /\ released = <<>>
  /\ pc = PC("dispatch", "call", 0, 0)
  /\ calls = <<>>
  /\ last_ret = Ret("init", 0)
  /\ cjni_env = [t \in AllThreads |-> NoEnv]
  /\ stack = [t \in AllThreads |-> <<>>]
  /\ trace = [t \in AllThreads |-> <<>>]
  /\ ncalls = [t \in AllThreads |-> 0]
  /\ bridge_ret = [t \in AllThreads |-> Ret("none", 0)]
  /\ in_vl \in JavaValueLists
  /\ call_arg = "none"
  /\ call_out = <<>>
  /\ dispatched = <<>>
  /\ jni_ret = 0

NextDispatch == cjni_api_dispatch_values

SpecDispatch == InitDispatch /\ [][NextDispatch]_vars

-----------------------------------------------------------------------------
(* Properties of DispatchValues *)

\* the call has returned
Returned == pc = PC("dispatch", "returned", 0, 0)

\* the values of the Java list the schema of its type asks for are Numbers
NumbersFor(jvl) ==
  \A i \in 1..Len(DataSets[jvl.type]) :
    i <= Len(jvl.values) /\ jvl.values[i].k \in {"Long", "Double"}

\* C3: when the conversion of the Java ValueList fails (the type names no data
\* set, an accessor cannot be found or returns nothing, a value cannot be
\* converted) DispatchValues returns -1 and plugin_dispatch_values is not
\* called; it is called only with a value list that was converted whole.
C3_NoDispatchOnFailure ==
  Returned =>
    LET failed == \/ in_vl.type \notin DOMAIN DataSets
                  \/ in_vl.fault # "none"
                  \/ ~NumbersFor(in_vl)
    IN /\ failed => (jni_ret = -1 /\ dispatched = <<>>)
       /\ dispatched # <<>> =>
            /\ ~failed
            /\ Len(dispatched) = 1
            /\ dispatched[1].type = in_vl.type
            /\ Len(dispatched[1].values) = Len(DataSets[in_vl.type])

\* DispatchValues has returned -1 for a list that holds an object that is no
\* Number where the data set wants a value
C3_Witness ==
  /\ Returned
  /\ in_vl.type = "if_octets"
  /\ in_vl.fault = "none"
  /\ Len(in_vl.values) = 2
  /\ in_vl.values[2] = JString
  /\ jni_ret = -1
  /\ dispatched = <<>>

\* C4: a Java ValueList with fewer or more values than its data set has data
\* sources is not converted: DispatchValues returns -1 and hands nothing to
\* plugin_dispatch_values.
C4_ArityMismatchFails ==
  (Returned /\ in_vl.type \in DOMAIN DataSets
            /\ Len(in_vl.values) # Len(DataSets[in_vl.type]))
    => (jni_ret = -1 /\ dispatched = <<>>)

-----------------------------------------------------------------------------
(* Configuration alone: cjni_config with any statements *)

NextConfig == cjni_config_any

SpecConfig == Init /\ [][NextConfig]_vars

\* the Plugin statements of the log handled without error, by position
StoredBy(name) ==
  {k \in DOMAIN statements : /\ statements[k].key = "Plugin"
                             /\ statements[k].arg = name
                             /\ statements[k].status = 0}

First(S) == CHOOSE k \in S : \A m \in S : k <= m

\* C13: the stored configuration blocks have pairwise distinct names, and
\* the block stored under a name holds the tree of the first block of that
\* name that was handled; a later block of a stored name is discarded (it
\* is counted as handled) and changes neither the list nor the stored tree.
C13_FirstBlockKept ==
  /\ \A i, j \in DOMAIN java_plugin_configs :
       java_plugin_configs[i].name = java_plugin_configs[j].name => i = j
  /\ \A i \in DOMAIN java_plugin_configs :
       LET e == java_plugin_configs[i]
       IN /\ StoredBy(e.name) # {}
          /\ e.ci = statements[First(StoredBy(e.name))].tree
  /\ \A k \in DOMAIN statements :
       k \in StoredBy(statements[k].arg) =>
         \E i \in DOMAIN java_plugin_configs :
           java_plugin_configs[i].name = statements[k].arg

\* two blocks of one name with different trees were both handled, and the
\* one stored block holds the tree of the first
C13_Witness ==
  /\ Len(java_plugin_configs) = 1
  /\ \E k, m \in StoredBy(java_plugin_configs[1].name) :
       /\ k < m
       /\ statements[k].tree # statements[m].tree
       /\ java_plugin_configs[1].ci = statements[k].tree

Failed == {k \in DOMAIN statements : statements[k].status # 0}
Succeeded == {k \in DOMAIN statements : statements[k].status = 0}

\* C14: cjni_config returns failure exactly when at least one statement
\* failed and none succeeded; with at least one success, or with no
\* statement at all, it returns success.
C14_ConfigStatus ==
  last_ret.fn = "config" =>
    /\ last_ret.status \in {0, -1}
    /\ last_ret.status = -1 <=> (Failed # {} /\ Succeeded = {})

\* a block with one failed and one handled statement has returned success
C14_Witness ==
  /\ last_ret = Ret("config", 0)
  /\ Failed # {}
  /\ Succeeded # {}

-----------------------------------------------------------------------------
(* The second half of cjni_init: cjni_config_plugins, then cjni_init_plugins *)

\* the descriptors the constructors run by cjni_load_plugins have registered
StartDescriptors ==
  {[name |-> n, type |-> t] : n \in Names, t \in {CB_TYPE_CONFIG}}
    \cup {[name |-> n, type |-> CB_TYPE_INIT] : n \in NamesOf(CB_TYPE_INIT)}

\* the blocks cjni_config has stored: names pairwise distinct
StartBlocks ==
  {b \in SeqsUpTo([name : Names, ci : {"t1"}], MaxChildren) :
     \A i, j \in DOMAIN b : b[i].name = b[j].name => i = j}

\* cjni_init has created the JVM, registered the native methods and loaded
\* the class, whose constructor has registered descriptors ds and read
\* functions rs; it is about to call cjni_config_plugins
InitStart ==
  \E ds \in SeqsUpTo(StartDescriptors, MaxRegs + 1),
     rs \in SeqsUpTo(Names, MaxRegs),
     bs \in StartBlocks :
    /\ jvm = "VM"
    /\ jvm_attached = {MainThread}
    /\ natives = TRUE
    /\ crashed = FALSE
    /\ jvm_argc = 0
    /\ statements = <<>>
    /\ java_classes_list =
         <<[name |-> "A", class |-> "CLASS",
            object |-> LocalRef(Len(ds) + Len(rs) + 1)]>>
    /\ java_plugin_configs = bs
    /\ java_callbacks =
         [i \in DOMAIN ds |->
            CallbackInfo(ds[i].name, ds[i].type, LocalRef(i), MethodName(ds[i].type))]
    /\ read_callbacks =
         [i \in DOMAIN rs |->
            CallbackInfo(rs[i], CB_TYPE_READ, LocalRef(Len(ds) + i), "Read")]
    /\ write_callbacks = <<>>
    /\ java_callbacks_lock = "free"
    /\ next_ref = Len(ds) + Len(rs) + 1
    /\ global_refs = 1 .. (Len(ds) + Len(rs) + 1)
    /\ local_refs = {Len(ds) + Len(rs) + 1}
    /\ released = <<>>
    /\ pc = PC("init", "config", 1, 0)
    /\ calls = <<>>
    /\ last_ret = Running("init")
    /\ cjni_env = [t \in AllThreads |-> NoEnv]
    /\ stack = [t \in AllThreads |-> <<>>]
    /\ trace = [t \in AllThreads |-> <<>>]
    /\ ncalls = [t \in AllThreads |-> 0]
    /\ bridge_ret = [t \in AllThreads |-> Ret("none", 0)]
    /\ in_vl = "none"
    /\ call_arg = "none"
    /\ call_out = <<>>
    /\ dispatched = <<>>
    /\ jni_ret = 0

NextStart ==
  \/ cjni_config_plugins_step
  \/ config_java_return
  \/ cjni_init_plugins_step
  \/ init_java_return
  \/ cjni_api_register_config
  \/ cjni_api_register_init
  \/ cjni_api_register_shutdown
  \/ cjni_api_register_read
  \/ cjni_api_register_write
  \/ bridge_attach(MainThread)
  \/ cjni_callback_info_destroy_delete(MainThread)
  \/ bridge_detach(MainThread)

SpecStart == InitStart /\ [][NextStart]_vars

\* the calls of one kind in the history, in order
CallsOf(cs, kind) == SelectSeq(cs, LAMBDA c : c.kind = kind)
\* the call a step has appended to the history, if it appended one
Appended(kind) ==
  /\ Len(calls') = Len(calls) + 1
  /\ SubSeq(calls', 1, Len(calls)) = calls
  /\ calls'[Len(calls')].kind = kind
LastCall == calls'[Len(calls')]
\* reads2 is reads without one registration of the name, or reads itself
\* when it holds none of that name
Withdrawn(reads, reads2, name) ==
  IF \A k \in DOMAIN reads : reads[k].name # name
    THEN reads2 = reads
    ELSE \E k \in DOMAIN reads :
           /\ reads[k].name = name
           /\ reads2 = [i \in 1 .. (Len(reads) - 1) |->
                          IF i < k THEN reads[i] ELSE reads[i + 1]]

C11_Step ==
  /\ Appended("init") =>
       LET c == LastCall
           before == {x.idx : x \in Range(CallsOf(calls, "init"))}
           inits == OfType(java_callbacks, CB_TYPE_INIT)
       IN /\ c.idx \in inits
          /\ before = {k \in inits : k < c.idx}
          /\ c.name = java_callbacks[c.idx].name
          /\ IF c.status # 0
               THEN Withdrawn(read_callbacks, read_callbacks', c.name)
               ELSE read_callbacks' = read_callbacks
          /\ write_callbacks' = write_callbacks
          /\ java_callbacks' = java_callbacks
  /\ Len(read_callbacks') < Len(read_callbacks) =>
       Appended("init") /\ LastCall.status # 0
  /\ (pc.at \in {"init", "init_java"} /\ pc'.at \notin {"init", "init_java"}) =>
       /\ last_ret' = Ret("init", 0)
       /\ {x.idx : x \in Range(CallsOf(calls', "init"))}
            = OfType(java_callbacks', CB_TYPE_INIT)

\* C11: cjni_init_plugins invokes every Init descriptor once, in registration
\* order; when one returns a non-zero status the read registration of the
\* same name is withdrawn and no other registration changes; the remaining
\* Init callbacks are still invoked, and the start returns success.
C11_InitPlugins == [][C11_Step]_vars

\* two Init callbacks were invoked, the first returned non-zero and the
\* read registration of its name was withdrawn and destroyed, that of the
\* other name is still there, and the start has returned success
C11_Witness ==
  /\ last_ret = Ret("init", 0)
  /\ LET ic == CallsOf(calls, "init")
     IN /\ Len(ic) = 2
        /\ ic[1].status # 0
        /\ ic[2].status = 0
        /\ ic[1].idx < ic[2].idx
  /\ Len(released) = 1
  /\ Len(read_callbacks) = 1
  /\ read_callbacks[1].name = "b"

C12_Step ==
  /\ (pc.at = "config" /\ pc.i <= Len(java_plugin_configs) /\ pc' # pc) =>
       LET name == java_plugin_configs[pc.i].name
           M == {k \in OfType(java_callbacks, CB_TYPE_CONFIG) :
                   java_callbacks[k].name = name}
           skip == PC("init", "config", pc.i + 1, 0)
       IN /\ calls' = calls
          /\ IF M = {}
               THEN pc' = skip
               ELSE \/ pc' = skip
                    \/ /\ pc' = PC("init", "config_java", pc.i, pc'.j)
                       /\ pc'.j \in M
                       /\ \A k \in M : pc'.j <= k
  /\ Appended("config") =>
       /\ pc.at = "config_java"
       /\ LastCall.idx = pc.j
       /\ LastCall.name = java_plugin_configs[pc.i].name
       /\ pc' = PC("init", "config", pc.i + 1, 0)
  /\ (pc.at = "config_java" /\ pc' # pc) => Appended("config")

\* C12: for each stored block cjni_config_plugins invokes the first-registered
\* Config descriptor whose name equals the block's name, once; descriptors of
\* other types and later Config descriptors of that name are not invoked; a
\* block with no such descriptor is skipped and the blocks after it are
\* still processed.
C12_ConfigPlugins == [][C12_Step]_vars

\* the block "b" had no Config descriptor and was skipped; for the block
\* "a" after it the second descriptor was invoked: the first one named "a"
\* is an Init descriptor, the third a later Config descriptor of that name
C12_Witness ==
  /\ pc.at = "init"
  /\ Len(java_plugin_configs) = 2
  /\ java_plugin_configs[1].name = "b"
  /\ java_plugin_configs[2].name = "a"
  /\ Len(java_callbacks) = 3
  /\ \A k \in 1 .. 3 : java_callbacks[k].name = "a"
  /\ java_callbacks[1].type = CB_TYPE_INIT
  /\ java_callbacks[2].type = CB_TYPE_CONFIG
  /\ java_callbacks[3].type = CB_TYPE_CONFIG
  /\ Len(calls) = 1
  /\ calls[1].kind = "config"
  /\ calls[1].idx = 2

\* a step in which Java code has called registerConfig, registerInit or
\* registerShutdown and got 0: a reference was made, nothing went to the daemon
RegisteredHere ==
  /\ pc' = pc
  /\ pc.at \in JavaStates
  /\ next_ref' = next_ref + 1
  /\ jni_ret' = 0
  /\ read_callbacks' = read_callbacks
  /\ write_callbacks' = write_callbacks

C17_Step ==
  /\ RegisteredHere =>
       /\ Len(java_callbacks') = Len(java_callbacks) + 1
       /\ SubSeq(java_callbacks', 1, Len(java_callbacks)) = java_callbacks
       /\ java_callbacks'[Len(java_callbacks')].type
            \in {CB_TYPE_CONFIG, CB_TYPE_INIT, CB_TYPE_SHUTDOWN}
  /\ java_callbacks' # java_callbacks => RegisteredHere

\* C17: a successful registration of a Config, Init or Shutdown callback
\* appends one descriptor at the end of java_callbacks, also when a
\* descriptor of that name and type is already there, and leaves the
\* descriptors registered before as they were, in the same order.
C17_RegisterAppends == [][C17_Step]_vars

\* a callback has registered a second descriptor with the name and type
\* of the first; both are in the list, the new one last
C17_Witness ==
  /\ Len(java_callbacks) = 2
  /\ java_callbacks[1].name = java_callbacks[2].name
  /\ java_callbacks[1].type = java_callbacks[2].type
  /\ java_callbacks[1].object.id < java_classes_list[1].object.id
  /\ java_callbacks[2].object.id > java_classes_list[1].object.id
  /\ jni_ret = 0

\* a step in which registerRead or registerWrite has returned 0: the daemon
\* holds one more read or write function
GivenToDaemon(list, list2, type) ==
  /\ Len(list2) = Len(list) + 1
  /\ SubSeq(list2, 1, Len(list)) = list
  /\ list2[Len(list2)].type = type
RegisteredRead == Len(read_callbacks') > Len(read_callbacks)
RegisteredWrite == Len(write_callbacks') > Len(write_callbacks)

C18_Step ==
  /\ \A k \in DOMAIN java_callbacks :
       java_callbacks[k].type \in {CB_TYPE_CONFIG, CB_TYPE_INIT, CB_TYPE_SHUTDOWN}
  /\ RegisteredRead =>
       /\ GivenToDaemon(read_callbacks, read_callbacks', CB_TYPE_READ)
       /\ UNCHANGED <<java_callbacks, write_callbacks>>
  /\ RegisteredWrite =>
       /\ GivenToDaemon(write_callbacks, write_callbacks', CB_TYPE_WRITE)
       /\ UNCHANGED <<java_callbacks, read_callbacks>>

StoredObjects ==
  {d.object : d \in Range(java_callbacks) \cup Range(read_callbacks)
                      \cup Range(write_callbacks) \cup Range(java_classes_list)}
    \ {NullRef}

\* C19: the object stored in a descriptor by a successful registration, and
\* the instance stored for a loaded class, is the global reference that
\* NewGlobalRef made, not the local reference the registration was given.
C19_StoredRefsGlobal ==
  \A o \in StoredObjects : o.k = "global" /\ o.id \in global_refs

\* the instances the classes of the list hold
Instances(list) == {list[k].object : k \in DOMAIN list} \ {NullRef}
\* every entry of the list but the one at i is as before
OthersKept(i) ==
  /\ Len(java_classes_list') = Len(java_classes_list)
  /\ \A k \in DOMAIN java_classes_list :
       k # i => java_classes_list'[k] = java_classes_list[k]

C15_Step ==
  /\ \A k \in DOMAIN java_classes_list :
       java_classes_list[k].class = "NULL" => java_classes_list[k].object = NullRef
  /\ (pc.at = "load" /\ pc' # pc) =>
       /\ last_ret' = last_ret
       /\ IF pc.i > Len(java_classes_list)
            THEN pc'.at = "config" /\ java_classes_list' = java_classes_list
            ELSE /\ pc' \in {PC("init", "load_java", pc.i, 0),
                             PC("init", "load", pc.i + 1, 0)}
                 /\ java_classes_list'[pc.i].object = NullRef
                 /\ OthersKept(pc.i)
  /\ (pc.at = "load_java" /\ pc' # pc) =>
       /\ last_ret' = last_ret
       /\ pc' = PC("init", "load", pc.i + 1, 0)
       /\ OthersKept(pc.i)
  /\ (pc.at = "release_classes" /\ pc' # pc) =>
       /\ Len(released') = Len(released) + Cardinality(Instances(java_classes_list))
       /\ \A k \in (Len(released) + 1) .. Len(released') :
            released'[k] \in Instances(java_classes_list)

\* C15: in cjni_load_plugins a class that cannot be resolved, has no
\* constructor or cannot be instantiated is skipped: the loop goes on with
\* the next class of the list, the start does not return because of it, the
\* class holds no instance, and cjni_shutdown releases one reference for
\* each class that holds an instance and none for the others.
C15_LoadSkipsFailedClass == [][C15_Step]_vars

\* of two configured classes one could not be loaded and the other was
\* instantiated; the start went on to its end, and the stop has released
\* the one instance and nothing else
C15_Witness ==
  /\ pc.at = "destroy"
  /\ last_ret = Running("shutdown")
  /\ Len(statements) = 2
  /\ \A k \in 1 .. 2 : statements[k].key = "LoadPlugin"
  /\ next_ref = 1
  /\ released = <<LocalRef(1)>>

C16_Step ==
  /\ jvm = "NULL" => pc.fn # "init"
  /\ (MainAt("idle") /\ jvm = "NULL" /\ last_ret' # last_ret
        /\ last_ret'.fn = "init" /\ last_ret'.done) =>
       /\ last_ret' = Ret("init", -1)
       /\ jvm' = "NULL"
       /\ jvm_attached' = {}
       /\ UNCHANGED <<java_classes_list, calls, next_ref>>
       /\ UNCHANGED <<java_callbacks, read_callbacks, write_callbacks>>
  /\ (last_ret = Ret("init", -1) /\ jvm = "NULL") =>
       /\ Instances(java_classes_list) = {}
       /\ calls = <<>>
       /\ next_ref = 0

\* C16: when cjni_init cannot create the JVM it returns -1 and jvm stays
\* NULL; no phase of the start runs without a JVM, so no class is
\* instantiated and no Config or Init callback is called.
C16_NoJvmNoStart == [][C16_Step]_vars

\* cjni_init has failed to create the JVM with a class and a block
\* configured: there is no JVM, no instance, and no callback was called
C16_Witness ==
  /\ last_ret = Ret("init", -1)
  /\ jvm = "NULL"
  /\ java_classes_list # <<>>
  /\ java_plugin_configs # <<>>
  /\ Instances(java_classes_list) = {}
  /\ calls = <<>>

-----------------------------------------------------------------------------
(* cjni_callback_register called by Java code that a dispatching thread runs,
   while the main thread runs cjni_shutdown *)

\* the threads between pthread_mutex_lock (&java_callbacks_lock) and the
\* pthread_mutex_unlock that follows it
Locked(t) ==
  /\ stack[t] # <<>>
  /\ Top(t).fn = "register"
  /\ Top(t).pc \in {"locked", "store", "unlock"}
LockHolders == {t \in Threads : Locked(t)}

\* the callback objects cjni_callback_register was given by the threads:
\* the local references made after the start
RegisteredObjects == {LocalRef(n) : n \in 3 .. next_ref}

\* the frame of cjni_callback_register: cbi, and tmp, the block realloc
\* returned, with the descriptors it copied
RegisterFrame(cbi) ==
  [fn |-> "register", pc |-> "lock", cbi |-> cbi, status |-> 0, tmp |-> <<>>]

\* cjni_callback_register up to pthread_mutex_lock: cjni_callback_info_create.
\* Where strdup fails, cjni_callback_info_create calls pthread_mutex_unlock
\* on java_callbacks_lock, which this thread does not hold: not defined by
\* POSIX, the mutex stays as it is or is released, whoever holds it.
cjni_callback_register_enter(t) ==
  /\ At(t, "write", "java")
  /\ jvm = "VM"
  /\ Cardinality(RegisteredObjects) < MaxRegs
  /\ \E type \in {CB_TYPE_CONFIG, CB_TYPE_INIT, CB_TYPE_SHUTDOWN},
        fault \in {"none", "malloc", "strdup"} :
       \E name \in {"a"} :
         LET n == next_ref + 1
             c == cjni_callback_info_create(n, name, type, fault)
         IN IF ~c.ok
              THEN /\ jni_ret' = -1
                   /\ java_callbacks_lock' \in
                        IF fault = "strdup" THEN {java_callbacks_lock, "free"}
                                            ELSE {java_callbacks_lock}
                   /\ UNCHANGED <<stack, next_ref, global_refs>>
              ELSE /\ stack' = [stack EXCEPT ![t] = Append(@, RegisterFrame(c.cbi))]
                   /\ next_ref' = n
                   /\ global_refs' = global_refs \cup c.made
                   /\ UNCHANGED <<jni_ret, java_callbacks_lock>>
  /\ UNCHANGED <<java_callbacks, read_callbacks, write_callbacks>>
  /\ UNCHANGED <<local_refs, released, cjni_env, trace, ncalls, bridge_ret>>
  /\ UNCHANGED <<vmVars, crashed, cfgVars, mainVars, in_vl, dispatched, call_arg, call_out>>

\* pthread_mutex_lock (&java_callbacks_lock): returns once no thread holds
\* the mutex
cjni_callback_register_lock(t) ==
  /\ At(t, "register", "lock")
  /\ java_callbacks_lock = "free"
  /\ java_callbacks_lock' = t
  /\ stack' = Goto(t, "locked")
  /\ UNCHANGED <<java_callbacks, read_callbacks, write_callbacks>>
  /\ UNCHANGED <<cjni_env, trace, ncalls, bridge_ret>>
  /\ UNCHANGED <<vmVars, crashed, cfgVars, refVars, mainVars, convVars>>

\* tmp = realloc (java_callbacks, ...): a block with the descriptors the list
\* has now and room for one more
cjni_callback_register_realloc(t) ==
  /\ At(t, "register", "locked")
  /\ \E realloc_ok \in BOOLEAN :
       stack' = [stack EXCEPT ![t][Len(stack[t])] =
                   IF realloc_ok
                     THEN [@ EXCEPT !.pc = "store", !.tmp = java_callbacks]
                     ELSE [@ EXCEPT !.pc = "unlock", !.status = -1]]
  /\ UNCHANGED <<cjni_env, trace, ncalls, bridge_ret>>
  /\ UNCHANGED <<vmVars, crashed, cfgVars, regVars, refVars, mainVars, convVars>>

\* java_callbacks = tmp; java_callbacks[java_callbacks_num] = *cbi;
\* java_callbacks_num++.  Where another thread has stored since the realloc,
\* the two threads raced for the list: the block of this thread takes its
\* place, or the descriptor lands behind the other's, or the process ends.
cjni_callback_register_append(t) ==
  /\ At(t, "register", "store")
  /\ IF java_callbacks = Top(t).tmp
       THEN /\ java_callbacks' = Append(java_callbacks, Top(t).cbi)
            /\ stack' = Goto(t, "unlock")
            /\ UNCHANGED crashed
       ELSE \/ /\ java_callbacks' = Append(Top(t).tmp, Top(t).cbi)
               /\ stack' = Goto(t, "unlock")
               /\ UNCHANGED crashed
            \/ /\ java_callbacks' = Append(java_callbacks, Top(t).cbi)
               /\ stack' = Goto(t, "unlock")
               /\ UNCHANGED crashed
            \/ /\ crashed' = TRUE
               /\ UNCHANGED <<java_callbacks, stack>>
  /\ UNCHANGED <<read_callbacks, write_callbacks, java_callbacks_lock>>
  /\ UNCHANGED <<cjni_env, trace, ncalls, bridge_ret>>
  /\ UNCHANGED <<vmVars, cfgVars, refVars, mainVars, convVars>>

\* pthread_mutex_unlock (&java_callbacks_lock), and the return; after a
\* failed realloc DeleteGlobalRef (jvm_env, cbi->object) on the local reference
cjni_callback_register_unlock(t) ==
  /\ At(t, "register", "unlock")
  /\ java_callbacks_lock' = "free"
  /\ IF Top(t).status = 0
       THEN /\ stack' = Pop(t)
            /\ jni_ret' = 0
            /\ UNCHANGED <<crashed, released>>
       ELSE \/ /\ stack' = Pop(t)
               /\ jni_ret' = -1
               /\ released' = Append(released, Top(t).cbi.object)
               /\ UNCHANGED crashed
            \/ /\ crashed' = TRUE
               /\ UNCHANGED <<stack, jni_ret, released>>
  /\ UNCHANGED <<java_callbacks, read_callbacks, write_callbacks>>
  /\ UNCHANGED <<next_ref, global_refs, local_refs>>
  /\ UNCHANGED <<cjni_env, trace, ncalls, bridge_ret>>
  /\ UNCHANGED <<vmVars, cfgVars, mainVars, in_vl, dispatched, call_arg, call_out>>

\* the release loop of cjni_shutdown takes no mutex: run while a thread is
\* between lock and unlock it races with that thread's realloc and append,
\* and the process may end here (or go on: cjni_shutdown_callbacks)
cjni_shutdown_callbacks_race ==
  /\ MainAt("release_callbacks")
  /\ LockHolders # {}
  /\ Crash

\* a thread is between realloc and java_callbacks = tmp: realloc may have
\* moved the list and freed the block java_callbacks still points to
Relocating == \E t \in Threads : At(t, "register", "store")

\* the loop of cjni_shutdown_plugins takes no mutex: where it reads
\* java_callbacks[i] while a thread is relocating the list, it reads a block
\* that may be freed, and the process may end here (or go on with what the
\* block held: cjni_shutdown_plugins_step)
cjni_shutdown_plugins_race ==
  /\ MainAt("shutdown")
  /\ Relocating
  /\ Crash

\* the plugin is started: the constructor of the class has registered the
\* write function "a", and each of the threads that dispatch values has
\* attached and is running that function
InitRegister ==
  LET write == CallbackInfo("a", CB_TYPE_WRITE, LocalRef(1), "Write")
      attached == cjni_thread_attach(NoEnv, "VM", TRUE, 0)
  IN
  /\ jvm = "VM"
  /\ jvm_attached = AllThreads
  /\ natives = TRUE
  /\ crashed = FALSE
  /\ jvm_argc = 0
  /\ statements = <<>>
  /\ java_classes_list = <<[name |-> "A", class |-> "CLASS", object |-> LocalRef(2)]>>
  /\ java_plugin_configs = <<>>
  /\ java_callbacks = <<>>
  /\ read_callbacks = <<>>
  /\ write_callbacks = <<write>>
  /\ java_callbacks_lock = "free"
  /\ next_ref = 2
  /\ global_refs = {1, 2}
  /\ local_refs = {2}
  /\ released = <<>>
  /\ pc = Idle
  /\ calls = <<>>
  /\ last_ret = Ret("init", 0)
  /\ cjni_env = [t \in AllThreads |-> IF t \in Threads THEN attached.env ELSE NoEnv]
  /\ stack = [t \in AllThreads |->
                IF t \in Threads THEN <<Frame("write", "java", write)>> ELSE <<>>]
  /\ trace = [t \in AllThreads |->
                IF t \in Threads THEN <<TraceEntry("attach", NoEnv, attached)>>
                                 ELSE <<>>]
  /\ ncalls = [t \in AllThreads |-> IF t \in Threads THEN 1 ELSE 0]
  /\ bridge_ret = [t \in AllThreads |-> Ret("none", 0)]
  /\ in_vl = "none"
  /\ call_arg = "none"
  /\ call_out = <<>>
  /\ dispatched = <<>>
  /\ jni_ret = 0

NextRegister ==
  \/ \E t \in Threads :
       \/ cjni_write_enter(t)
       \/ bridge_attach(t)
       \/ cjni_write_convert(t)
       \/ bridge_call(t)
       \/ cjni_callback_register_enter(t)
       \/ cjni_callback_register_lock(t)
       \/ cjni_callback_register_realloc(t)
       \/ cjni_callback_register_append(t)
       \/ cjni_callback_register_unlock(t)
       \/ java_return(t)
       \/ bridge_detach(t)
  \/ cjni_shutdown_enter
  \/ cjni_shutdown_plugins_step
  \/ cjni_shutdown_plugins_race
  \/ shutdown_java_return
  \/ cjni_shutdown_callbacks
  \/ cjni_shutdown_callbacks_race
  \/ cjni_shutdown_classes
  \/ cjni_shutdown_destroy

SpecRegister == InitRegister /\ [][NextRegister]_vars

\* C20: every change of java_callbacks, the append of cjni_callback_register
\* and the release loop of cjni_shutdown alike, is made by a thread that
\* holds java_callbacks_lock, so none is made while another thread is
\* between its lock and its unlock.
C20_MutationsUnderLock ==
  [][java_callbacks' # java_callbacks =>
       /\ \E t \in LockHolders : stack'[t] # stack[t]
       /\ \A t \in LockHolders : stack'[t] # stack[t]]_vars

-----------------------------------------------------------------------------
(* cjni_thread_detach by itself, called with any binding a thread can have *)

\* the bindings of a thread: none (it never attached), one with counter 0
\* (an invocation pair is over, or AttachCurrentThread failed), one with a
\* counter k > 0 (the thread is inside k invocations)
Bindings ==
  {NoEnv, [alloc |-> TRUE, reference_counter |-> 0, jvm_env |-> "NULL"]}
    \cup {[alloc |-> TRUE, reference_counter |-> k, jvm_env |-> "ENV"] :
            k \in 1 .. MaxDepth}

InitDetach ==
  \E b \in [Threads -> Bindings] :
    /\ jvm = "VM"
    /\ jvm_attached = {MainThread} \cup {t \in Threads : b[t].reference_counter > 0}
    /\ natives = TRUE
    /\ crashed = FALSE
    /\ jvm_argc = 0
    /\ statements = <<>>
    /\ java_classes_list = <<>>
    /\ java_plugin_configs = <<>>
    /\ java_callbacks = <<>>
    /\ read_callbacks = <<>>
    /\ write_callbacks = <<>>
    /\ java_callbacks_lock = "free"
    /\ next_ref = 0
    /\ global_refs = {}
    /\ local_refs = {}
    /\ released = <<>>
    /\ pc = Idle
    /\ calls = <<>>
    /\ last_ret = Ret("init", 0)
    /\ cjni_env = [t \in AllThreads |-> IF t \in Threads THEN b[t] ELSE NoEnv]
    /\ stack = [t \in AllThreads |-> <<>>]
    /\ trace = [t \in AllThreads |-> <<>>]
    /\ ncalls = [t \in AllThreads |-> 0]
    /\ bridge_ret = [t \in AllThreads |-> Ret("none", 0)]
    /\ in_vl = "none"
    /\ call_arg = "none"
    /\ call_out = <<>>
    /\ dispatched = <<>>
    /\ jni_ret = 0

\* one call of cjni_thread_detach by thread t
cjni_thread_detach_call(t) ==
  /\ ~crashed
  /\ CallsMade < MaxCalls
  /\ \E ndebug \in BOOLEAN :
       LET r == cjni_thread_detach(cjni_env[t], jvm, ndebug)
       IN IF r.crash THEN Crash
          ELSE /\ cjni_env' = [cjni_env EXCEPT ![t] = r.env]
               /\ trace' = [trace EXCEPT ![t] =
                              Append(@, TraceEntry("detach", cjni_env[t], r))]
               /\ jvm_attached' = IF r.jni THEN jvm_attached \ {t} ELSE jvm_attached
               /\ bridge_ret' = [bridge_ret EXCEPT ![t] = Ret("detach", r.ret)]
               /\ ncalls' = [ncalls EXCEPT ![t] = @ + 1]
               /\ UNCHANGED <<jvm, natives, crashed, stack>>
               /\ UNCHANGED <<cfgVars, regVars, refVars, mainVars, convVars>>

NextDetach == \E t \in Threads : cjni_thread_detach_call(t)

SpecDetach == InitDetach /\ [][NextDetach]_vars

\* C21: a call of cjni_thread_detach by a thread that has no binding, or
\* whose binding has reference_counter 0, returns an error status, does not
\* call DetachCurrentThread, leaves the binding as it was, and does not end
\* the process.
C21_DetachMisuseFails ==
  /\ ~crashed
  /\ \A t \in Threads : \A i \in DOMAIN trace[t] :
       LET c == trace[t][i]
       IN (c.op = "detach" /\ c.found <= 0) =>
            /\ ~c.ok
            /\ ~c.jni
            /\ c.left = c.found

\* thread t is inside cjni_read, cjni_write or cjni_callback_info_destroy,
\* between the return of cjni_thread_attach and the call of cjni_thread_detach
InBridge(t) ==
  \E i \in DOMAIN stack[t] :
    /\ stack[t][i].fn \in {"read", "write", "destroy"}
    /\ stack[t][i].pc \in {"convert", "call", "java", "delete"}
\* the main thread is inside cjni_shutdown, after its check of jvm
InShutdown == pc.fn = "shutdown"
\* the binding of the thread counts at least one attachment
Guarded(t) == cjni_env[t].alloc /\ cjni_env[t].reference_counter > 0

\* the part on cjni_read, cjni_write and cjni_callback_info_destroy
BridgeGuarded ==
  ~crashed => \A t \in AllThreads : InBridge(t) => Guarded(t)

\* C22: cjni_read, cjni_write, cjni_callback_info_destroy and cjni_shutdown
\* make their JNI calls only while the binding of the calling thread has a
\* reference_counter above 0, between cjni_thread_attach and
\* cjni_thread_detach.
C22_JniCallsGuarded ==
  /\ BridgeGuarded
  /\ (~crashed /\ InShutdown) => Guarded(MainThread)

-----------------------------------------------------------------------------
(* The native method Log: cjni_api_log *)

\* syslog priorities
LOG_ERR == 3
LOG_DEBUG == 7

\* jint
MaxInt32 == 2147483647
MinInt32 == -MaxInt32 - 1
MaxSeverity == 12
Severities == (-MaxSeverity .. MaxSeverity) \cup {MinInt32, MaxInt32}
Messages == {"m1", "m2"}

\* an entry the daemon's plugin_log receives
LogEntry(severity, msg) == [severity |-> severity, msg |-> msg]

\* faulty variant of cjni_api_log_severity: the severity is passed on as given
cjni_api_log_severity_raw(severity) == severity

\* if (severity < LOG_ERR) severity = LOG_ERR;
\* if (severity > LOG_DEBUG) severity = LOG_DEBUG;
cjni_api_log_severity(severity) ==
  LET s1 == IF severity < LOG_ERR THEN LOG_ERR ELSE severity
  IN IF s1 > LOG_DEBUG THEN LOG_DEBUG ELSE s1

\* cjni_api_log: str_ok tells whether GetStringUTFChars returned the
\* characters; if not, ERROR () logs the plugin's own message and the
\* function returns.  It returns void either way.
cjni_api_log ==
  /\ ~crashed
  /\ pc = PC("log", "call", 0, 0)
  /\ \E str_ok \in BOOLEAN :
       call_out' =
         IF str_ok
           THEN Append(call_out, LogEntry(cjni_api_log_severity(call_arg.severity),
                                          call_arg.message))
           ELSE Append(call_out, LogEntry(LOG_ERR, "GetStringUTFChars failed"))
  /\ pc' = PC("log", "returned", 0, 0)
  /\ UNCHANGED <<in_vl, dispatched, call_arg, jni_ret, calls, last_ret>>
  /\ UNCHANGED <<vmVars, crashed, cfgVars, regVars, refVars, threadVars>>

\* Java code that runs after a start calls Log with any severity
InitLog ==
  /\ jvm = "VM"
  /\ jvm_attached = {MainThread}
  /\ natives = TRUE
  /\ crashed = FALSE
  /\ jvm_argc = 0
  /\ statements = <<>>
  /\ java_classes_list = <<[name |-> "A", class |-> "CLASS", object |-> LocalRef(1)]>>
  /\ java_plugin_configs = <<>>
  /\ java_callbacks = <<>>
  /\ read_callbacks = <<>>
  /\ write_callbacks = <<>>
  /\ java_callbacks_lock = "free"
  /\ next_ref = 1
  /\ global_refs = {1}
  /\ local_refs = {1}
  /\ released = <<>>
  /\ pc = PC("log", "call", 0, 0)
  /\ calls = <<>>
  /\ last_ret = Ret("init", 0)
  /\ cjni_env = [t \in AllThreads |-> NoEnv]
  /\ stack = [t \in AllThreads |-> <<>>]
  /\ trace = [t \in AllThreads |-> <<>>]
  /\ ncalls = [t \in AllThreads |-> 0]
  /\ bridge_ret = [t \in AllThreads |-> Ret("none", 0)]
  /\ in_vl = "none"
  /\ dispatched = <<>>
  /\ call_arg \in [severity : Severities, message : Messages]
  /\ call_out = <<>>
  /\ jni_ret = 0

NextLog == cjni_api_log

SpecLog == InitLog /\ [][NextLog]_vars

\* the entries of plugin_log that carry the caller's message
Forwarded == SelectSeq(call_out, LAMBDA e : e.msg = call_arg.message)

\* C23: cjni_api_log hands the message to plugin_log once, with severity
\* LOG_ERR when the given severity is below LOG_ERR, LOG_DEBUG when it is
\* above LOG_DEBUG and the given severity otherwise; whatever is logged has
\* a severity from LOG_ERR to LOG_DEBUG, and nothing is reported to the
\* caller.  When the characters of the message cannot be got, the message
\* is not handed on and the function logs that instead.
C23_LogClamps ==
  pc = PC("log", "returned", 0, 0) =>
    LET s == call_arg.severity
    IN /\ Len(call_out) = 1
       /\ call_out[1].severity \in LOG_ERR .. LOG_DEBUG
       /\ \A i \in DOMAIN Forwarded :
            Forwarded[i].severity =
              (CASE s < LOG_ERR -> LOG_ERR
                 [] s > LOG_DEBUG -> LOG_DEBUG
                 [] OTHER -> s)
       /\ jni_ret = 0
       /\ ~crashed

\* the largest jint was given and the message was logged with LOG_DEBUG
C23_Witness ==
  /\ pc = PC("log", "returned", 0, 0)
  /\ call_arg.severity = MaxInt32
  /\ Len(Forwarded) = 1
  /\ Forwarded[1].severity = LOG_DEBUG

-----------------------------------------------------------------------------
(* The conversions between value_list_t and org.collectd.api.ValueList:      *)
(* ctoj_value_list, as cjni_write calls it, and jtoc_value_list, as          *)
(* DispatchValues calls it, applied one after the other in either order      *)

\* a local reference a conversion obtained and still holds when it returns
Ref(name, i) == [ref |-> name, i |-> i]

\* ctoj_value_to_number: a java.lang.Long for a counter, a java.lang.Double
\* for a gauge, NULL for any other type
ctoj_value_to_number(value, ds_type) ==
  IF ds_type = "COUNTER" THEN JLong(ToJLong(value.v))
  ELSE IF ds_type = "GAUGE" THEN JDouble(value.v)
  ELSE JNull

\* faulty variant of ctoj_time: the seconds are handed on as they are
ctoj_time_seconds(time) == ToJLong(time)

\* the argument of setTime in ctoj_value_list
ctoj_time(time) == ToJLong(ToJLong(time) * ToJLong(1000))

\* the argument of setInterval in ctoj_value_list
ctoj_interval(interval) == ToJLong(interval)

\* the JNI steps of ctoj_value_list that can fail
ConvertFaults == {"none", "FindClass", "GetMethodID", "NewObject",
                  "add_data_set", "setHost", "setTime", "setInterval",
                  "addValue"}

NoJavaValueList ==
  [type |-> "", time |-> 0, interval |-> 0, values |-> <<>>, fault |-> "none"]

\* ctoj_value_list: status 0 stands for the object returned, -1 for NULL;
\* refs are the local references of this function that are live at the
\* return.  c_valuelist is deleted on no path, o_valuelist on each failure
\* after NewObject.
ctoj_value_list(ds, vl, fault) ==
  LET numbers == [i \in DOMAIN vl.values |->
                    ctoj_value_to_number(vl.values[i], ds[i])]
      jvl == [type |-> vl.type, time |-> ctoj_time(vl.time),
              interval |-> ctoj_interval(vl.interval), values |-> numbers,
              fault |-> "none"]
  IN IF fault = "FindClass"
       THEN [status |-> -1, res |-> NoJavaValueList, refs |-> <<>>]
     ELSE IF fault # "none"
       THEN [status |-> -1, res |-> NoJavaValueList,
             refs |-> <<Ref("c_valuelist", 0)>>]
     ELSE [status |-> 0, res |-> jvl,
           refs |-> <<Ref("c_valuelist", 0), Ref("o_valuelist", 0)>>]

\* the local references of jtoc_values_array that are live when its loop
\* ends: each o_number it got from GetObjectArrayElement
RECURSIVE jtoc_values_loop_refs(_, _, _, _)
jtoc_values_loop_refs(ds, arr, i, refs) ==
  IF i > Len(ds) THEN refs
  ELSE LET o_number == GetObjectArrayElement(arr, i)
       IN IF o_number = JNull THEN refs
          ELSE IF jtoc_value(ds[i], o_number).status # 0
            THEN Append(refs, Ref("o_number", i))
          ELSE jtoc_values_loop_refs(ds, arr, i + 1,
                                     Append(refs, Ref("o_number", i)))

\* the local references of jtoc_values_array that are live when it returns:
\* BAIL_OUT and the end of the function delete o_number_array and o_list,
\* nothing deletes the class of o_list and the elements
jtoc_values_array_refs(ds, jvl) ==
  IF jvl.fault = "getValues" THEN <<>>
  ELSE IF jvl.fault \in {"toArray", "calloc"}
    THEN <<Ref("GetObjectClass (o_list)", 0)>>
  ELSE jtoc_values_loop_refs(ds, jvl.values, 1,
                             <<Ref("GetObjectClass (o_list)", 0)>>)

\* the local references live when jtoc_value_list returns: class_ptr, and
\* what jtoc_values_array left when it was called
jtoc_value_list_refs(jvl) ==
  LET ds == plugin_get_ds(jvl.type)
  IN IF jvl.fault = "GetObjectClass" THEN <<>>
     ELSE IF jvl.fault \in {"getType", "getHost", "getPlugin",
                            "getPluginInstance", "getTypeInstance",
                            "getTime", "getInterval"} \/ ds = <<>>
       THEN <<Ref("class_ptr", 0)>>
     ELSE <<Ref("class_ptr", 0)>> \o jtoc_values_array_refs(ds, jvl)

\* one conversion made: its direction, argument, status, result and the
\* local references it left
Conversion(dir, arg, r, refs) ==
  [dir |-> dir, arg |-> arg, status |-> r.status, res |-> r.res, refs |-> refs]

\* what the next conversion is given: the argument of the call, or the
\* result of the conversion before
Pending ==
  IF call_out = <<>> THEN call_arg
  ELSE LET e == call_out[Len(call_out)]
       IN [k |-> IF e.status # 0 THEN "none"
                 ELSE IF e.dir = "ctoj" THEN "jvl"
                 ELSE IF e.dir = "jtoc" THEN "vl" ELSE "none",
           v |-> e.res]

\* cjni_write's call of ctoj_value_list
ctoj_value_list_call ==
  /\ ~crashed
  /\ pc = PC("convert", "call", 0, 0)
  /\ Len(call_out) < 2
  /\ Pending.k = "vl"
  /\ \E fault \in ConvertFaults :
       LET vl == Pending.v
           r == ctoj_value_list(plugin_get_ds(vl.type), vl, fault)
       IN call_out' = Append(call_out, Conversion("ctoj", vl, r, r.refs))
  /\ UNCHANGED <<in_vl, dispatched, call_arg, jni_ret, pc, calls, last_ret>>
  /\ UNCHANGED <<vmVars, crashed, cfgVars, regVars, refVars, threadVars>>

\* cjni_api_dispatch_values' call of jtoc_value_list
jtoc_value_list_call ==
  /\ ~crashed
  /\ pc = PC("convert", "call", 0, 0)
  /\ Len(call_out) < 2
  /\ Pending.k = "jvl"
  /\ LET jvl == Pending.v
         r == jtoc_value_list(jvl)
     IN call_out' = Append(call_out,
                           Conversion("jtoc", jvl, [status |-> r.status, res |-> r.vl],
                                      jtoc_value_list_refs(jvl)))
  /\ UNCHANGED <<in_vl, dispatched, call_arg, jni_ret, pc, calls, last_ret>>
  /\ UNCHANGED <<vmVars, crashed, cfgVars, regVars, refVars, threadVars>>

\* ctoj_oconfig_value: an OConfigValue made from a boolean, a String or a
\* Number (a Double), NULL for any other type
ctoj_oconfig_value(ocvalue) ==
  IF ocvalue.type = "BOOLEAN"
    THEN [k |-> "OConfigValue", type |-> "Boolean", v |-> IF ocvalue.v = 0 THEN 0 ELSE 1]
  ELSE IF ocvalue.type = "STRING"
    THEN [k |-> "OConfigValue", type |-> "String", v |-> ocvalue.v]
  ELSE IF ocvalue.type = "NUMBER"
    THEN [k |-> "OConfigValue", type |-> "Number", v |-> 2 * ocvalue.v]
  ELSE JNull

\* the oconfig_item_t converted: both loops of ctoj_oconfig_item call
\* m_addvalue, so OConfigItem.addValue gets the values and then the children,
\* and addChild is not called
RECURSIVE ctoj_oconfig_item_object(_)
ctoj_oconfig_item_object(ci) ==
  LET values == [i \in DOMAIN ci.values |-> ctoj_oconfig_value(ci.values[i])]
      children == [i \in DOMAIN ci.children |->
                     ctoj_oconfig_item_object(ci.children[i])]
  IN [k |-> "OConfigItem", key |-> ci.key,
      values |-> values \o children, children |-> <<>>]

\* the JNI steps of ctoj_oconfig_item that can fail
ItemFaults == {"none", "FindClass", "GetMethodID", "NewStringUTF", "NewObject",
               "ctoj_oconfig_value", "ctoj_oconfig_item"}

\* ctoj_oconfig_item: status 0 stands for the object returned, -1 for NULL;
\* c_ocitem is deleted on no path, o_key after NewObject, o_ocitem on each
\* failure after it, o_value and o_child after they were added.  The loops
\* fail only where there is a value or a child to convert.
ctoj_oconfig_item(ci, fault) ==
  IF fault = "FindClass" THEN [status |-> -1, res |-> JNull, refs |-> <<>>]
  ELSE IF \/ fault \in {"GetMethodID", "NewStringUTF", "NewObject"}
          \/ fault = "ctoj_oconfig_value" /\ ci.values # <<>>
          \/ fault = "ctoj_oconfig_item" /\ ci.children # <<>>
    THEN [status |-> -1, res |-> JNull, refs |-> <<Ref("c_ocitem", 0)>>]
  ELSE [status |-> 0, res |-> ctoj_oconfig_item_object(ci),
        refs |-> <<Ref("c_ocitem", 0), Ref("o_ocitem", 0)>>]

\* cjni_config_plugins' call of ctoj_oconfig_item.  CallVoidMethod with
\* addValue (OConfigValue) and an OConfigItem as its argument is not defined
\* by JNI: the virtual machine adds the object to the list or ends the
\* process.
ctoj_oconfig_item_call ==
  /\ ~crashed
  /\ pc = PC("convert", "call", 0, 0)
  /\ call_out = <<>>
  /\ Pending.k = "ci"
  /\ \E fault \in ItemFaults, outcome \in {"go on", "crash"} :
       LET ci == Pending.v
           r == ctoj_oconfig_item(ci, fault)
           undefined == r.status = 0 /\ ci.children # <<>>
       IN /\ outcome = "crash" => undefined
          /\ crashed' = (outcome = "crash")
          /\ call_out' = IF outcome = "crash" THEN call_out
                         ELSE <<Conversion("ctoj_item", ci, r, r.refs)>>
  /\ UNCHANGED <<in_vl, dispatched, call_arg, jni_ret, pc, calls, last_ret>>
  /\ UNCHANGED <<vmVars, cfgVars, regVars, refVars, threadVars>>

\* oconfig_value_t: a string, a number, a boolean
OConfigValues ==
  {[type |-> "STRING", v |-> 1], [type |-> "NUMBER", v |-> 3],
   [type |-> "BOOLEAN", v |-> 1]}

\* the blocks the daemon's parser hands over: a block with values and
\* children, the children with a value or none
OConfigItems ==
  LET leaves == [key : {"c1", "c2"}, values : SeqsUpTo(OConfigValues, 1),
                 children : {<<>>}]
  IN [key : {"k"}, values : SeqsUpTo(OConfigValues, MaxVals),
      children : SeqsUpTo(leaves, MaxChildren)]

\* the bounds of the times drawn, in seconds
MaxSeconds == 3

\* counters, among them the largest and those around the sign bit of a jlong
CounterValues == {0, 1, Modulus \div 2 - 1, Modulus \div 2, Modulus - 1}

\* the value lists the daemon hands to cjni_write: as many values as the
\* data set has sources, each of the type of its source
NativeValueLists ==
  {ValueList("gauge", time, 10, <<[t |-> "gauge", v |-> 5]>>) :
     time \in 0 .. MaxSeconds}
  \cup {ValueList("if_octets", time, 10,
                  <<[t |-> "counter", v |-> rx], [t |-> "counter", v |-> tx]>>) :
          time \in 0 .. MaxSeconds, rx \in CounterValues, tx \in CounterValues}

\* the ValueLists Java code hands to DispatchValues: times in milliseconds,
\* whole seconds and others
ConvertJavaValueLists ==
  [type : {"gauge", "if_octets"},
   time : {1000 * n + r : n \in 0 .. MaxSeconds, r \in {0, 1, 999}},
   interval : {10000},
   values : SeqsUpTo(JavaObjects \cup {JLong(-1)}, MaxVals),
   fault : DispatchFaults]

InitConvert ==
  /\ jvm = "VM"
  /\ jvm_attached = {MainThread}
  /\ natives = TRUE
  /\ crashed = FALSE
  /\ jvm_argc = 0
  /\ statements = <<>>
  /\ java_classes_list = <<[name |-> "A", class |-> "CLASS", object |-> LocalRef(1)]>>
  /\ java_plugin_configs = <<>>
  /\ java_callbacks = <<>>
  /\ read_callbacks = <<>>
  /\ write_callbacks = <<>>
  /\ java_callbacks_lock = "free"
  /\ next_ref = 1
  /\ global_refs = {1}
  /\ local_refs = {1}
  /\ released = <<>>
  /\ pc = PC("convert", "call", 0, 0)
  /\ calls = <<>>
  /\ last_ret = Ret("init", 0)
  /\ cjni_env = [t \in AllThreads |-> NoEnv]
  /\ stack = [t \in AllThreads |-> <<>>]
  /\ trace = [t \in AllThreads |-> <<>>]
  /\ ncalls = [t \in AllThreads |-> 0]
  /\ bridge_ret = [t \in AllThreads |-> Ret("none", 0)]
  /\ in_vl = "none"
  /\ dispatched = <<>>
  /\ \/ \E vl \in NativeValueLists : call_arg = [k |-> "vl", v |-> vl]
     \/ \E jvl \in ConvertJavaValueLists : call_arg = [k |-> "jvl", v |-> jvl]
     \/ \E ci \in OConfigItems : call_arg = [k |-> "ci", v |-> ci]
  /\ call_out = <<>>
  /\ jni_ret = 0

NextConvert ==
  \/ ctoj_value_list_call
  \/ jtoc_value_list_call
  \/ ctoj_oconfig_item_call

SpecConvert == InitConvert /\ [][NextConvert]_vars

\* the conversions of one direction that returned success
Converted(dir) ==
  {i \in DOMAIN call_out : call_out[i].dir = dir /\ call_out[i].status = 0}

\* both conversions of a round trip that began with dir returned success
WentRound(dir) ==
  /\ Len(call_out) = 2
  /\ call_out[1].dir = dir
  /\ call_out[1].status = 0
  /\ call_out[2].status = 0

\* C24: the time of a value list is n * 1000 milliseconds on the Java side for
\* n seconds on the native side, and the whole seconds of the milliseconds,
\* cut toward zero, on the native side: n seconds come back as n seconds,
\* n * 1000 milliseconds come back as n * 1000 milliseconds.  (The times
\* drawn are those whose milliseconds fit a jlong.)
C24_TimeRoundTrip ==
  /\ \A i \in Converted("ctoj") :
       call_out[i].res.time = call_out[i].arg.time * 1000
  /\ \A i \in Converted("jtoc") :
       LET ms == call_out[i].arg.time
           s == call_out[i].res.time
       IN s >= 0 /\ s * 1000 <= ms /\ ms < s * 1000 + 1000
  /\ WentRound("ctoj") => call_out[2].res.time = call_out[1].arg.time
  /\ (WentRound("jtoc") /\ call_out[1].arg.time % 1000 = 0)
       => call_out[2].res.time = call_out[1].arg.time

\* whole seconds in milliseconds went to the native side and came back
C24_Witness ==
  /\ WentRound("jtoc")
  /\ call_out[1].arg.time = 1000 * MaxSeconds
  /\ call_out[1].res.time = MaxSeconds
  /\ call_out[2].res.time = 1000 * MaxSeconds

Items == {i \in DOMAIN call_out :
            call_out[i].dir = "ctoj_item" /\ call_out[i].status = 0}

\* C26: the OConfigItem made from a block has the block's values, converted,
\* in their order as its value list, and the block's children, converted, in
\* their order as its child list: no child is in the value list.
C26_ItemStructureKept ==
  \A i \in Items :
    LET ci == call_out[i].arg
        o == call_out[i].res
    IN /\ o.values = [j \in DOMAIN ci.values |-> ctoj_oconfig_value(ci.values[j])]
       /\ Len(o.children) = Len(ci.children)
       /\ \A j \in DOMAIN o.children :
            /\ o.children[j].k = "OConfigItem"
            /\ o.children[j].key = ci.children[j].key

\* C27: a conversion that returns failure has released every local
\* reference it obtained during the call: the class it looked up, the
\* elements jtoc_values_array took from the array, the object it was
\* building.
C27_FailureReleasesLocals ==
  \A i \in DOMAIN call_out :
    call_out[i].status # 0 => call_out[i].refs = <<>>

\* C28: a counter handed to Java as a Long and read back as a counter is the
\* counter it was, also from the sign bit of the jlong upward, where the Long
\* is negative; a Number in the place of a counter is read with longValue
\* whatever its class, in the place of a gauge with doubleValue.
C28_CounterRoundTrip ==
  /\ (WentRound("ctoj") /\ call_out[1].arg.type = "if_octets") =>
       /\ call_out[2].res.values = call_out[1].arg.values
       /\ \A j \in DOMAIN call_out[1].res.values :
            LET c == call_out[1].arg.values[j].v
                o == call_out[1].res.values[j]
            IN /\ o.k = "Long"
               /\ o.n = IF c >= Modulus \div 2 THEN c - Modulus ELSE c
  /\ \A i \in Converted("jtoc") :
       LET ds == plugin_get_ds(call_out[i].arg.type)
       IN \A j \in DOMAIN call_out[i].res.values :
            LET o == call_out[i].arg.values[j]
                v == call_out[i].res.values[j]
            IN IF ds[j] = "COUNTER"
                 THEN v.t = "counter" /\ v.v = longValue(o) % Modulus
                 ELSE v.t = "gauge" /\ v.v = doubleValue(o)

\* the largest counter and the counter at the sign bit went to Java as
\* negative Longs and came back
C28_Witness ==
  /\ WentRound("ctoj")
  /\ call_out[1].arg.values =
       <<[t |-> "counter", v |-> Modulus - 1], [t |-> "counter", v |-> Modulus \div 2]>>
  /\ call_out[1].res.values = <<JLong(-1), JLong(-(Modulus \div 2))>>
  /\ call_out[2].res.values = call_out[1].arg.values

\* the registration of o has not returned success: it is before its store,
\* or its realloc failed
Unfinished(o) ==
  \/ \E t \in Threads : \E i \in DOMAIN stack[t] :
       /\ stack[t][i].fn = "register"
       /\ stack[t][i].cbi.object = o
       /\ stack[t][i].pc \in {"lock", "locked", "store"} \/ stack[t][i].status # 0
  \/ \E i \in DOMAIN released : released[i] = o

\* C30: whatever the interleaving of the registrations of config, init and
\* shutdown callbacks that threads make, each registration that returned
\* success has its descriptor in java_callbacks exactly once, and
\* java_callbacks holds nothing else, as long as cjni_shutdown has not begun.
C30_NoRegistrationLost ==
  (~crashed /\ pc = Idle) =>
    /\ \A o \in RegisteredObjects :
         \/ Unfinished(o)
         \/ Cardinality({k \in DOMAIN java_callbacks :
                           java_callbacks[k].object = o}) = 1
    /\ \A k \in DOMAIN java_callbacks :
         /\ java_callbacks[k].object \in RegisteredObjects
         /\ ~Unfinished(java_callbacks[k].object)
                \/ \E t \in Threads : At(t, "register", "unlock")
         /\ java_callbacks[k].method = MethodName(java_callbacks[k].type)

\* a registration fails in cjni_callback_info_create: the native method
\* returns -1 and NewGlobalRef was not reached
RegistrationFails ==
  /\ jni_ret = 0
  /\ jni_ret' = -1
  /\ next_ref' = next_ref

\* C29: a registration whose method is not found, or whose descriptor
\* cjni_callback_info_create cannot build, returns -1 and leaves
\* java_callbacks, the daemon's read and write registrations and the global
\* references as they were; the process goes on.
C29_FailedRegistrationLeavesNothing ==
  [][RegistrationFails =>
       /\ UNCHANGED <<java_callbacks, read_callbacks, write_callbacks>>
       /\ UNCHANGED <<global_refs, local_refs, released>>
       /\ ~crashed']_vars

\* the registration Java code tried last has failed, and every reference
\* NewGlobalRef was asked for is that of a stored descriptor or of the class:
\* the failure was one of cjni_callback_info_create
C29_Witness ==
  /\ JavaRuns
  /\ jni_ret = -1
  /\ next_ref = Len(java_callbacks) + Len(read_callbacks) + Len(write_callbacks) + 1

\* C38: java_callbacks_lock is unlocked only by the thread that holds it, at
\* the pthread_mutex_unlock of cjni_callback_register: no step of another
\* thread, such as a failed strdup in cjni_callback_info_create, takes the
\* mutex from its holder.
C38_UnlockedByHolder ==
  [][\A t \in Threads :
       (java_callbacks_lock = t /\ java_callbacks_lock' # t)
         => At(t, "register", "unlock")]_vars

\* C31: a loop over java_callbacks that runs while another thread registers
\* (here the loop of cjni_shutdown_plugins) reads no descriptor of a list
\* that the registration has freed or moved: it takes no step while a
\* registering thread has reallocated the list and not yet stored the new
\* block.
C31_TraversalReadsLiveList ==
  [][(MainAt("shutdown") /\ pc' # pc) => ~Relocating]_vars

\* cjni_read or cjni_write of thread t returns in this step, its detach having
\* succeeded
ReturnsAfterDetach(t) ==
  /\ stack[t] # <<>>
  /\ Top(t).fn \in {"read", "write"}
  /\ Top(t).pc = "detach"
  /\ Len(stack'[t]) < Len(stack[t])
  /\ trace'[t][Len(trace'[t])].op = "detach"
  /\ trace'[t][Len(trace'[t])].ok

\* C33: where attach, conversion and detach succeeded, cjni_read and
\* cjni_write return the status the Java callback returned: a status other
\* than 0 is not returned as 0.
C33_CallbackStatusReturned ==
  [][\A t \in AllThreads :
       ReturnsAfterDetach(t) => bridge_ret'[t].status = Top(t).status]_vars

\* C32: the object a Read or Write callback is invoked with is a reference
\* that has not been released: a global reference that exists, not the
\* local reference registerRead or registerWrite was given, which
\* DeleteLocalRef releases when the registration ends.
C32_InvokedRefsLive ==
  \A t \in AllThreads : \A i \in DOMAIN stack[t] :
    (stack[t][i].fn \in {"read", "write"} /\ stack[t][i].pc = "java")
      => /\ stack[t][i].cbi.object.k = "global"
         /\ stack[t][i].cbi.object.id \in global_refs

\* thread t is at a point of cjni_read, cjni_write or
\* cjni_callback_info_destroy where its next step goes through jvm or through
\* the JNIEnv got from it: AttachCurrentThread in cjni_thread_attach, the
\* method call, DeleteGlobalRef
UsesRuntimeNext(t) ==
  /\ stack[t] # <<>>
  /\ Top(t).fn \in {"read", "write", "destroy"}
  /\ \/ Top(t).pc \in {"call", "delete"}
     \/ /\ Top(t).pc = "attach"
        /\ ~(cjni_env[t].alloc /\ cjni_env[t].reference_counter > 0)

\* C34: in every interleaving of cjni_read, cjni_write,
\* cjni_callback_info_destroy and cjni_shutdown, a thread that is about to
\* attach to the JVM or to make a JNI call does so with jvm set: never after
\* cjni_shutdown has destroyed the JVM and set jvm to NULL.
C34_RuntimeHandlePresent ==
  ~crashed => \A t \in AllThreads : UsesRuntimeNext(t) => jvm = "VM"

-----------------------------------------------------------------------------
(* The binding of a thread between calls *)

\* the binding holds a JNIEnv exactly while it counts an attachment
BindingConsistent(e) ==
  e.alloc => /\ e.reference_counter >= 0
             /\ (e.reference_counter > 0 <=> e.jvm_env # "NULL")

\* thread t has just returned from cjni_thread_attach or cjni_thread_detach
Bound(t) ==
  /\ Len(trace'[t]) = Len(trace[t]) + 1
  /\ trace'[t][Len(trace'[t])].op \in {"attach", "detach"}

BindingStep(t) ==
  LET c == trace'[t][Len(trace'[t])]
      e == cjni_env[t]
      e2 == cjni_env'[t]
  IN Bound(t) =>
       /\ e.alloc => e2.alloc
       /\ (e.alloc /\ c.op = "attach" /\ c.ok)
            => e2.reference_counter = e.reference_counter + 1
       /\ (c.op = "detach" /\ c.jni)
            => e2 = [alloc |-> TRUE, reference_counter |-> 0, jvm_env |-> "NULL"]
       /\ (c.op = "attach" /\ c.jni /\ ~c.ok)
            => e2 = [alloc |-> TRUE, reference_counter |-> 0, jvm_env |-> "NULL"]

\* C35: between calls the binding of every thread has reference_counter >= 0,
\* and reference_counter > 0 exactly when jvm_env is set; the detach that
\* brings the counter to 0 clears jvm_env and keeps the binding, on which the
\* next attach goes on counting; an attach whose AttachCurrentThread fails
\* leaves the counter at 0 and jvm_env NULL.
C35_BindingInvariant ==
  /\ [](\A t \in AllThreads : BindingConsistent(cjni_env[t]))
  /\ [][\A t \in AllThreads : BindingStep(t)]_vars

\* a thread has attached and detached, and its next attach, made on the
\* binding the detach left, has failed in AttachCurrentThread
C35_Witness ==
  \E t \in Threads : \E i \in DOMAIN trace[t] :
    /\ trace[t][i].op = "detach" /\ trace[t][i].jni
    /\ i + 1 = Len(trace[t])
    /\ trace[t][i + 1].op = "attach"
    /\ trace[t][i + 1].jni /\ ~trace[t][i + 1].ok
    /\ cjni_env[t].alloc /\ cjni_env[t].reference_counter = 0

-----------------------------------------------------------------------------
(* The order of the phases of cjni_init and cjni_shutdown *)

LoadPhase == {"load", "load_java"}
ConfigPhase == {"config", "config_java"}
InitPhase == {"init", "init_java"}
ShutdownPhase == {"shutdown", "shutdown_java"}

\* the callback this step has invoked is of the given kind
Invokes(kind) ==
  /\ Len(calls') = Len(calls) + 1
  /\ calls'[Len(calls')].kind = kind

PhaseStep ==
  \* the loop over the classes is left when every class has been tried, and
  \* only for the loop over the configuration blocks
  /\ (pc.at \in LoadPhase /\ pc'.at \notin LoadPhase)
       => pc'.at = "config" /\ pc.i > Len(java_classes_list)
  /\ (pc'.at \in ConfigPhase /\ pc.at \notin ConfigPhase) => pc.at \in LoadPhase
  \* the loop over the blocks is left when every block has been handled, and
  \* only for the loop over the Init callbacks
  /\ (pc.at \in ConfigPhase /\ pc'.at \notin ConfigPhase)
       => pc'.at = "init" /\ pc.i > Len(java_plugin_configs)
  /\ (pc'.at \in InitPhase /\ pc.at \notin InitPhase) => pc.at \in ConfigPhase
  \* cjni_shutdown_plugins is entered from outside cjni_init, with a JVM
  /\ (pc'.at \in ShutdownPhase /\ pc.at \notin ShutdownPhase)
       => pc.at \in {"idle", "stopped"} /\ jvm = "VM"
  \* each kind of callback is invoked from its own loop
  /\ Invokes("config") => pc.fn = "init" /\ pc.at = "config_java"
  /\ Invokes("init") => pc.fn = "init" /\ pc.at = "init_java"
  /\ Invokes("shutdown")
       => pc.fn = "shutdown" /\ pc.at = "shutdown_java" /\ jvm = "VM"

\* C36: the phases come in the order load, configure, init, shutdown: a
\* Config callback is invoked only when cjni_load_plugins has tried every
\* class of java_classes_list, an Init callback only when cjni_config_plugins
\* has handled every block of java_plugin_configs, and a Shutdown callback
\* only by cjni_shutdown while the JVM a start created exists.
C36_PhaseOrder == [][PhaseStep]_vars

\* a start has loaded a class and invoked a Config and then an Init callback,
\* and the stop that followed it has run to its end
C36_Witness ==
  /\ pc.at = "stopped"
  /\ last_ret = Ret("shutdown", 0)
  /\ \E i, j \in DOMAIN calls :
       /\ i < j
       /\ calls[i].kind = "config"
       /\ calls[j].kind = "init"

\* C37: cjni_init returns 0 only when the native methods are registered, the
\* step behind which cjni_load_plugins, cjni_config_plugins and
\* cjni_init_plugins run: after a start that failed in cjni_init_native, with
\* the JVM created, no later start returns 0 with no class loaded and no Init
\* callback invoked.
C37_SuccessMeansStarted ==
  (last_ret.fn = "init" /\ last_ret.done /\ last_ret.status = 0) => natives

====
